---- MODULE Spec2Model ----
(***************************************************************************)
(* A model of multicommand: MultiCommand (registration of named commands,  *)
(* run() dispatching an argument vector to a named command or the default  *)
(* command), NamedCommand (the per-command hooks) and the error classes.   *)
(*                                                                         *)
(* JavaScript strings are sequences of one-character strings, so that the  *)
(* letter-case conversions, the first-term match of a syntax string and    *)
(* the tests on the first character of an argument are computed.           *)
(* run() executes synchronously; it is split into steps at the points where *)
(* it calls a hook a subclass may override, and while a run is between two *)
(* steps no other operation is enabled (JavaScript runs it to completion). *)
(***************************************************************************)
EXTENDS Integers, Sequences, FiniteSets, TLC

VARIABLES
    commandInfoArray,   \* this.commandInfoArray: the registered command infos
    helpWrapWidth,      \* this.helpWrapWidth
    lastAdd,            \* the last addCommands() call: its argument, the array before it, what it threw
    pc,                 \* idle; added (addCommands() has returned or thrown); or the position of
                        \* the current run(): addOptions, parseArgs, doCommand, done
    argv,               \* run()'s argv
    cb,                 \* behaviour of run()'s `next` callback when it is called
    route,              \* which branch of run() loaded the command: none, named, default, unrecognized
    command,            \* the NamedCommand instance created by run() (its fields after _init)
    configOptions,      \* the minimist configuration object of this run
    args,               \* the args object: minimist's output, then processed
    hooks,              \* what the overridable hooks of this run did
    trace,              \* the calls run() has made so far, in order
    completions,        \* the arguments of the calls of `next` so far, in order
    pending,            \* the calls whose execute hook completes in a later tick
    thrown,             \* the exception that left run() (NoError if none)
    stdout,             \* what was written to process.stdout
    groups,             \* history: the classes each addCommands() call appended
    prompts             \* the prompts of NamedCommand.confirm(): what was asked, what was
                        \* typed, and the calls of confirm()'s `next`

registry == <<commandInfoArray, helpWrapWidth>>
runVars  == <<pc, argv, cb, route, command, configOptions, args, hooks, trace,
              completions, pending, thrown, stdout>>
vars     == <<commandInfoArray, helpWrapWidth, lastAdd, pc, argv, cb, route,
              command, configOptions, args, hooks, trace, completions, pending,
              thrown, stdout, groups, prompts>>

----------------------------------------------------------------------------
(* Bounds of the model *)

\* longest argument vector passed to run()
MaxArgs == 3
\* longest array of command classes passed to one addCommands() call
MaxBatch == 2
\* the longest chain of options.add() calls made by one option hook
MaxAdds == 3
\* the most run() calls whose execute hook has not completed yet
MaxSuspended == 2

----------------------------------------------------------------------------
(* Strings *)

DEFAULT_WRAP_WIDTH == 80

LowerChar(c) ==
    CASE c = "F" -> "f" [] c = "O" -> "o" [] c = "G" -> "g" [] c = "X" -> "x"
      [] c = "Y" -> "y" [] c = "E" -> "e" [] c = "S" -> "s" [] c = "N" -> "n"
      [] OTHER -> c

UpperChar(c) ==
    CASE c = "f" -> "F" [] c = "o" -> "O" [] c = "g" -> "G" [] c = "x" -> "X"
      [] c = "y" -> "Y" [] c = "e" -> "E" [] c = "s" -> "S" [] c = "n" -> "N"
      [] OTHER -> c

\* String.prototype.toLowerCase
toLowerCase(s) == [i \in 1..Len(s) |-> LowerChar(s[i])]

\* String.prototype.toUpperCase
toUpperCase(s) == [i \in 1..Len(s) |-> UpperChar(s[i])]

\* s.substr(n): the string from 0-based position n on
substr(s, n) == IF n >= Len(s) THEN <<>> ELSE SubSeq(s, n + 1, Len(s))

\* the position of the first character of s at or after i that is (not) a space; Len(s)+1 if none
RECURSIVE Scan(_, _, _)
Scan(s, i, wantSpace) ==
    IF i > Len(s) THEN i
    ELSE IF (s[i] = " ") = wantSpace THEN i
    ELSE Scan(s, i + 1, wantSpace)

\* syntax.match(/[^ ]+/)[0]: the first maximal run of non-space characters
FirstTerm(s) ==
    LET b == Scan(s, 1, FALSE)
        e == Scan(s, b, TRUE)
    IN  SubSeq(s, b, e - 1)

----------------------------------------------------------------------------
(* Errors: the classes of errors.js and the built-in Error *)

\* UnexpectedArgError declared as a subclass of Error itself
SuperClassFlat(k) ==
    CASE k = "UnexpectedArgError" -> "Error"
      [] k = "CommandUsageError"  -> "CommandError"
      [] k = "CommandError"       -> "Error"
      [] OTHER                    -> "none"

\* the superclass of each error class; Error is the root
SuperClass(k) ==
    CASE k = "UnexpectedArgError" -> "CommandUsageError"
      [] k = "CommandUsageError"  -> "CommandError"
      [] k = "CommandError"       -> "Error"
      [] OTHER                    -> "none"

\* err instanceof K, for an error of class kind
RECURSIVE InstanceOf(_, _)
InstanceOf(kind, K) ==
    IF kind = "none" THEN FALSE
    ELSE IF kind = K THEN TRUE
    ELSE InstanceOf(SuperClass(kind), K)

\* an error object: its class, the fixed part of its message, the string
\* inserted into the message, and the place that created it
Err(kind, text, arg, by) == [kind |-> kind, text |-> text, arg |-> arg, by |-> by]

NoError == Err("none", "", <<>>, "")

\* new errors.CommandUsageError(message)
CommandUsageError(text, arg, by) == Err("CommandUsageError", text, arg, by)

\* new errors.UnexpectedArgError(arg), for a string arg: the message is built
\* from arg alone
UnexpectedArgError(arg) == Err("UnexpectedArgError", "UnexpectedArgument: ", arg, "run")

----------------------------------------------------------------------------
(* The command classes handed to addCommands(): concrete subclasses of     *)
(* NamedCommand, each with its static getInfo().  FoCommand and FoShadow   *)
(* have names that differ in letter case only.                             *)

CommandClasses == {"FoCommand", "FoShadow", "GoCommand"}

\* commandClass.getInfo(): the syntax and summary of a command class
getInfo(commandClass) ==
    CASE commandClass = "FoCommand" ->
            [syntax |-> <<"F", "o", " ", "x">>, summary |-> "does fo"]
      [] commandClass = "FoShadow" ->
            [syntax |-> <<"f", "O">>, summary |-> "shadows fo"]
      [] commandClass = "GoCommand" ->
            [syntax |-> <<"g", "o">>, summary |-> "does go"]
      [] commandClass = "PaddedCommand" ->
            [syntax |-> <<" ", "x", "o", " ", "g">>, summary |-> "does xo"]

\* the command info addCommands() derives from a class (MultiCommand.js 54-58, 65)
CommandInfo(commandClass, firstOfGroup) ==
    LET info == getInfo(commandClass)
        name == FirstTerm(info.syntax)
    IN  [syntax       |-> info.syntax,
         summary      |-> info.summary,
         name         |-> name,
         normName     |-> toLowerCase(name),
         commandClass |-> commandClass,
         firstOfGroup |-> firstOfGroup]

\* the error addCommands() throws for a name already registered
DuplicateError(normName) == Err("Error", "duplicate command name ", normName, "addCommands")

\* the comparison made on the names as written instead of the normalized names
IsDuplicateCaseSensitive(infoArray, commandInfo) ==
    \E p \in 1..Len(infoArray) : commandInfo.name = infoArray[p].name

\* whether a prior command info has this normalized name (the inner forEach, 59-64)
IsDuplicate(infoArray, commandInfo) ==
    \E p \in 1..Len(infoArray) : commandInfo.normName = infoArray[p].normName

\* the check made against the commands of earlier calls only, not against
\* those pushed earlier in the same call
RECURSIVE addEachAgainstPrior(_, _, _, _)
addEachAgainstPrior(infoArray, commandClasses, i, firstOfGroup) ==
    IF i > Len(commandClasses)
    THEN [infoArray |-> infoArray, thrown |-> NoError]
    ELSE LET commandInfo == CommandInfo(commandClasses[i], firstOfGroup)
             prior       == SubSeq(infoArray, 1, Len(infoArray) - (i - 1))
         IN  IF \E p \in 1..Len(prior) : commandInfo.normName = prior[p].normName
             THEN [infoArray |-> infoArray,
                   thrown    |-> DuplicateError(commandInfo.normName)]
             ELSE addEachAgainstPrior(Append(infoArray, commandInfo), commandClasses,
                                      i + 1, FALSE)

\* firstOfGroup never reset: every command is marked as the first of a group
RECURSIVE addEachEveryFirst(_, _, _, _)
addEachEveryFirst(infoArray, commandClasses, i, firstOfGroup) ==
    IF i > Len(commandClasses)
    THEN [infoArray |-> infoArray, thrown |-> NoError]
    ELSE LET commandInfo == CommandInfo(commandClasses[i], firstOfGroup)
         IN  IF IsDuplicate(infoArray, commandInfo)
             THEN [infoArray |-> infoArray,
                   thrown    |-> DuplicateError(commandInfo.normName)]
             ELSE addEachEveryFirst(Append(infoArray, commandInfo), commandClasses,
                                    i + 1, firstOfGroup)

\* the array restored when a later class of the same call is a duplicate:
\* a call that throws registers nothing
RECURSIVE addEachAtomic(_, _, _, _)
addEachAtomic(infoArray, commandClasses, i, firstOfGroup) ==
    IF i > Len(commandClasses)
    THEN [infoArray |-> infoArray, thrown |-> NoError]
    ELSE LET commandInfo == CommandInfo(commandClasses[i], firstOfGroup)
         IN  IF IsDuplicate(infoArray, commandInfo)
             THEN [infoArray |-> infoArray,
                   thrown    |-> DuplicateError(commandInfo.normName)]
             ELSE LET rest == addEachAtomic(Append(infoArray, commandInfo),
                                            commandClasses, i + 1, FALSE)
                  IN  IF rest.thrown = NoError THEN rest
                      ELSE [infoArray |-> infoArray, thrown |-> rest.thrown]

\* unshift for push: each new command info goes to the front of the array
RECURSIVE addEachInFront(_, _, _, _)
addEachInFront(infoArray, commandClasses, i, firstOfGroup) ==
    IF i > Len(commandClasses)
    THEN [infoArray |-> infoArray, thrown |-> NoError]
    ELSE LET commandInfo == CommandInfo(commandClasses[i], firstOfGroup)
         IN  IF IsDuplicate(infoArray, commandInfo)
             THEN [infoArray |-> infoArray,
                   thrown    |-> DuplicateError(commandInfo.normName)]
             ELSE addEachInFront(<<commandInfo>> \o infoArray, commandClasses,
                                 i + 1, FALSE)

\* the outer forEach of addCommands() from element i on: each class is checked
\* against everything registered so far and pushed; the first duplicate throws
\* and leaves what was pushed before it
RECURSIVE addEach(_, _, _, _)
addEach(infoArray, commandClasses, i, firstOfGroup) ==
    IF i > Len(commandClasses)
    THEN [infoArray |-> infoArray, thrown |-> NoError]
    ELSE LET commandInfo == CommandInfo(commandClasses[i], firstOfGroup)
         IN  IF IsDuplicate(infoArray, commandInfo)
             THEN [infoArray |-> infoArray,
                   thrown    |-> DuplicateError(commandInfo.normName)]
             ELSE addEach(Append(infoArray, commandInfo), commandClasses, i + 1, FALSE)

\* the arrays of command classes a caller passes to addCommands()
Batches == UNION {[1..n -> CommandClasses] : n \in 0..MaxBatch}

----------------------------------------------------------------------------
(* The minimist configuration object and options.add()                     *)
(*                                                                         *)
(* An object with string keys is a sequence of <<key, value>> pairs in     *)
(* insertion order.  Option names are strings (sequences of characters).   *)

\* the value at key k of object o, as a set: empty when o has no such key
Lookup(o, k) == {o[i][2] : i \in {j \in 1..Len(o) : o[j][1] = k}}

HasKey(o, k) == \E i \in 1..Len(o) : o[i][1] = k

\* o[k] = v: an existing key keeps its place, a new key goes last
SetKey(o, k, v) ==
    IF HasKey(o, k)
    THEN [i \in 1..Len(o) |-> IF o[i][1] = k THEN <<k, v>> ELSE o[i]]
    ELSE Append(o, <<k, v>>)

\* Object.assign(target, source)
RECURSIVE Assign(_, _)
Assign(target, source) ==
    IF source = <<>> THEN target
    ELSE Assign(SetKey(target, Head(source)[1], Head(source)[2]), Tail(source))

\* the option names used by the model
optH    == <<"h">>
optHelp == <<"h", "e", "l", "p">>
optX    == <<"x">>
optB    == <<"b">>
optA    == <<"a">>

\* let configOptions = { boolean: ['h'], alias: { h: 'help' } }; configOptions.add = ...
\* own lists the properties the object has; string and default do not exist yet
InitialConfig ==
    [boolean   |-> <<optH>>,
     alias     |-> << <<optH, optHelp>> >>,
     string    |-> <<>>,
     default   |-> <<>>,
     other     |-> <<>>,
     own       |-> {"boolean", "alias", "add"}]

\* one property of a moreConfig object passed to options.add(): its key and its
\* value, which is an array of names (isArray), a single name (names[1]) or an
\* object (map)
Property(key, isArray, names, map) ==
    [key |-> key, isArray |-> isArray, names |-> names, map |-> map]

\* every property copied onto the object, as Object.assign(this, moreConfig)
\* would: a list or map given later replaces the one given earlier
addConfigOptionAssign(this, prop) ==
    CASE prop.key = "alias"   -> [this EXCEPT !.alias = prop.map]
      [] prop.key = "boolean" -> [this EXCEPT !.boolean = prop.names]
      [] prop.key = "default" -> [this EXCEPT !.default = prop.map,
                                              !.own = this.own \cup {"default"}]
      [] prop.key = "string"  -> [this EXCEPT !.string = prop.names,
                                              !.own = this.own \cup {"string"}]
      [] OTHER ->
            [this EXCEPT !.other = SetKey(this.other, prop.key, prop.names),
                         !.own = this.own \cup {prop.key}]

\* one iteration of the for..in loop of addConfigOptions: the switch on key
addConfigOption(this, prop) ==
    CASE prop.key = "alias" ->
            [this EXCEPT !.alias = Assign(this.alias, prop.map)]
      [] prop.key = "boolean" ->
            [this EXCEPT !.boolean = IF prop.isArray
                                     THEN this.boolean \o prop.names
                                     ELSE Append(this.boolean, prop.names[1])]
      [] prop.key = "default" ->
            [this EXCEPT !.default = Assign(this.default, prop.map),
                         !.own = this.own \cup {"default"}]
      [] prop.key = "string" ->
            [this EXCEPT !.string = IF prop.isArray
                                    THEN this.string \o prop.names
                                    ELSE Append(this.string, prop.names[1]),
                         !.own = this.own \cup {"string"}]
      [] OTHER ->
            [this EXCEPT !.other = SetKey(this.other, prop.key, prop.names),
                         !.own = this.own \cup {prop.key}]

\* addConfigOptions(moreConfig), bound to the configuration object as options.add
RECURSIVE addConfigOptions(_, _)
addConfigOptions(this, moreConfig) ==
    IF moreConfig = <<>> THEN this
    ELSE addConfigOptions(addConfigOption(this, Head(moreConfig)), Tail(moreConfig))

\* { alias: { h: 'x' } }: an option hook that takes -h for an option of its own
HelpOverride == << Property("alias", FALSE, <<>>, << <<optH, optX>> >>) >>

\* the moreConfig objects the option hooks of the model pass to options.add()
\* during run(): { boolean: ['x'], string: 'b', default: { b: 'z' } }
Contributions ==
    { << Property("boolean", TRUE, <<optX>>, <<>>),
         Property("string", FALSE, <<optB>>, <<>>),
         Property("default", FALSE, <<>>, << <<optB, <<"z">> >> >>) >> }

\* { boolean: ['a'] }
BooleanA == << Property("boolean", TRUE, <<optA>>, <<>>) >>

\* { string: ['b'], default: { b: 'z' } }
StringB ==
    << Property("string", TRUE, <<optB>>, <<>>),
       Property("default", FALSE, <<>>, << <<optB, <<"z">> >> >>) >>

\* { boolean: 'x', string: 'b' }: single names instead of arrays
SingleNames ==
    << Property("boolean", FALSE, <<optX>>, <<>>),
       Property("string", FALSE, <<optB>>, <<>>) >>

\* { alias: { x: 'a' }, default: { b: 'y' } }
Overrides ==
    << Property("alias", FALSE, <<>>, << <<optX, optA>> >>),
       Property("default", FALSE, <<>>, << <<optB, <<"y">> >> >>) >>

\* the moreConfig objects of the chains of options.add() calls
OptionObjects == {BooleanA, StringB, SingleNames, Overrides, HelpOverride}

\* a hook calling options.add() for each object of a sequence in turn
RECURSIVE addAll(_, _)
addAll(this, moreConfigs) ==
    IF moreConfigs = <<>> THEN this
    ELSE addAll(addConfigOptions(this, Head(moreConfigs)), Tail(moreConfigs))

----------------------------------------------------------------------------
(* The tokenizer, minimist(args, opts), on the argument forms of the model: *)
(* `-k` (one letter), `--key`, `--`, and bare words.  The forms --key=val,  *)
(* --no-key, grouped letters (-abc) and the words true/false are not among  *)
(* the arguments the model passes.                                          *)

\* JavaScript values held by the args object
BoolValue(b)   == [t |-> "boolean", s |-> <<>>, n |-> IF b THEN 1 ELSE 0, items |-> <<>>]
StringValue(s) == [t |-> "string", s |-> s, n |-> 0, items |-> <<>>]
NumberValue(n) == [t |-> "number", s |-> <<>>, n |-> n, items |-> <<>>]
ArrayValue(xs) == [t |-> "array", s |-> <<>>, n |-> 0, items |-> xs]

\* whether a value is truthy, as `if (args.help)` tests it
Truthy(v) ==
    CASE v.t = "boolean" -> v.n = 1
      [] v.t = "string"  -> v.s # <<>>
      [] v.t = "number"  -> v.n # 0
      [] OTHER           -> TRUE

Digits == <<"0", "1", "2", "3", "4", "5", "6", "7", "8", "9">>

IsDigit(c) == \E d \in 1..10 : Digits[d] = c

DigitValue(c) == (CHOOSE d \in 1..10 : Digits[d] = c) - 1

\* minimist's isNumber, on strings without sign, point or exponent
isNumber(s) == Len(s) > 0 /\ \A i \in 1..Len(s) : IsDigit(s[i])

\* Number(s) for a string of digits
RECURSIVE Number(_)
Number(s) ==
    IF s = <<>> THEN 0
    ELSE 10 * Number(SubSeq(s, 1, Len(s) - 1)) + DigitValue(s[Len(s)])

\* String(n) for a natural number
RECURSIVE NatToString(_)
NatToString(n) ==
    IF n < 10 THEN <<Digits[n + 1]>>
    ELSE Append(NatToString(n \div 10), Digits[(n % 10) + 1])

\* String(arg) for a value of the leftover array
String(v) ==
    CASE v.t = "number"  -> NatToString(v.n)
      [] v.t = "boolean" -> IF v.n = 1 THEN <<"t", "r", "u", "e">>
                                       ELSE <<"f", "a", "l", "s", "e">>
      [] OTHER           -> v.s

\* /^(-|--)[^-]/.test(s)
LooksLikeOption(s) ==
    \/ Len(s) >= 2 /\ s[1] = "-" /\ s[2] # "-"
    \/ Len(s) >= 3 /\ s[1] = "-" /\ s[2] = "-" /\ s[3] # "-"

\* /^--.+/.test(s)
IsLongOption(s) == Len(s) >= 3 /\ s[1] = "-" /\ s[2] = "-"

\* /^-[^-]+/.test(s), for a single letter
IsShortOption(s) == Len(s) = 2 /\ s[1] = "-" /\ s[2] # "-"

\* the position of the first `--` of args, 0 if none (args.indexOf('--'))
RECURSIVE IndexOfDashDash(_, _)
IndexOfDashDash(tokens, i) ==
    IF i > Len(tokens) THEN 0
    ELSE IF tokens[i] = <<"-", "-">> THEN i
    ELSE IndexOfDashDash(tokens, i + 1)

\* minimist's aliases table for an alias object whose values are single names:
\* each key lists its value, each value lists its key (a later key replaces an
\* earlier one for the same value)
RECURSIVE Aliases(_, _)
Aliases(alias, table) ==
    IF alias = <<>> THEN table
    ELSE LET k == Head(alias)[1]
             v == Head(alias)[2]
         IN  Aliases(Tail(alias), SetKey(SetKey(table, k, <<v>>), v, <<k>>))

\* aliases[key] || []
AliasesOf(flags, key) ==
    IF HasKey(flags.aliases, key)
    THEN CHOOSE a \in Lookup(flags.aliases, key) : TRUE
    ELSE <<>>

\* flags: bools, strings (with the aliases of string options) and aliases
Flags(opts) ==
    LET aliases == Aliases(opts.alias, <<>>)
        strs    == {opts.string[i] : i \in 1..Len(opts.string)}
    IN  [bools   |-> {opts.boolean[i] : i \in 1..Len(opts.boolean)},
         strings |-> strs \cup
                     UNION {{a[j] : j \in 1..Len(a)} :
                            a \in UNION {Lookup(aliases, k) : k \in strs}},
         aliases |-> aliases]

\* aliases[key] ? !aliasIsBoolean(key) : true
NoBooleanAlias(flags, key) ==
    LET a == AliasesOf(flags, key)
    IN  \A j \in 1..Len(a) : a[j] \notin flags.bools

\* setKey(argv, [key], value): a repeated non-boolean option collects an array
setKey(flags, o, key, value) ==
    IF ~HasKey(o, key) THEN SetKey(o, key, value)
    ELSE LET cur == CHOOSE v \in Lookup(o, key) : TRUE
         IN  IF key \in flags.bools \/ cur.t = "boolean"
             THEN SetKey(o, key, value)
             ELSE IF cur.t = "array"
             THEN SetKey(o, key, ArrayValue(Append(cur.items, value)))
             ELSE SetKey(o, key, ArrayValue(<<cur, value>>))

RECURSIVE setKeys(_, _, _, _)
setKeys(flags, o, keys, value) ==
    IF keys = <<>> THEN o
    ELSE setKeys(flags, setKey(flags, o, Head(keys), value), Tail(keys), value)

\* setArg(key, val): a numeric-looking string value of a non-string option
\* becomes a number; the value goes to the key and to each of its aliases
setArg(flags, o, key, val) ==
    LET value == IF key \notin flags.strings /\ val.t = "string" /\ isNumber(val.s)
                 THEN NumberValue(Number(val.s))
                 ELSE val
    IN  setKeys(flags, o, <<key>> \o AliasesOf(flags, key), value)

\* every boolean option starts as false (no defaults for booleans in the model)
RECURSIVE InitBools(_, _, _)
InitBools(flags, o, booleans) ==
    IF booleans = <<>> THEN o
    ELSE InitBools(flags, setArg(flags, o, Head(booleans), BoolValue(FALSE)), Tail(booleans))

\* the main loop of minimist over the arguments before `--`
RECURSIVE ParseLoop(_, _, _, _)
ParseLoop(flags, tokens, i, out) ==
    IF i > Len(tokens) THEN out
    ELSE LET arg     == tokens[i]
             hasNext == i + 1 <= Len(tokens)
             key     == IF IsLongOption(arg) THEN substr(arg, 2) ELSE substr(arg, 1)
             takes   == /\ hasNext
                        /\ ~LooksLikeOption(tokens[i + 1])
                        /\ key \notin flags.bools
                        /\ NoBooleanAlias(flags, key)
                        /\ (IsShortOption(arg) => tokens[i + 1] # <<>>)
         IN  IF IsLongOption(arg) \/ IsShortOption(arg)
             THEN IF takes
                  THEN ParseLoop(flags, tokens, i + 2,
                         [out EXCEPT !.opts =
                            setArg(flags, @, key, StringValue(tokens[i + 1]))])
                  ELSE ParseLoop(flags, tokens, i + 1,
                         [out EXCEPT !.opts =
                            setArg(flags, @, key,
                                   IF key \in flags.strings THEN StringValue(<<>>)
                                                            ELSE BoolValue(TRUE))])
             ELSE ParseLoop(flags, tokens, i + 1,
                    [out EXCEPT !.leftover =
                       Append(@, IF <<"_">> \in flags.strings \/ ~isNumber(arg)
                                 THEN StringValue(arg)
                                 ELSE NumberValue(Number(arg)))])

\* a default is given to every key of opts.default the arguments did not set
RECURSIVE ApplyDefaults(_, _, _)
ApplyDefaults(flags, o, defaults) ==
    IF defaults = <<>> THEN o
    ELSE LET k == Head(defaults)[1]
             v == StringValue(Head(defaults)[2])
         IN  ApplyDefaults(flags,
                 IF HasKey(o, k) THEN o
                 ELSE setKeys(flags, o, <<k>> \o AliasesOf(flags, k), v),
                 Tail(defaults))

\* minimist(args, opts): the option values and the leftover non-option arguments
minimist(tokens, opts) ==
    LET flags    == Flags(opts)
        dd       == IndexOfDashDash(tokens, 1)
        before   == IF dd = 0 THEN tokens ELSE SubSeq(tokens, 1, dd - 1)
        notFlags == IF dd = 0 THEN <<>> ELSE SubSeq(tokens, dd + 1, Len(tokens))
        start    == [opts |-> InitBools(flags, <<>>, opts.boolean), leftover |-> <<>>]
        parsed   == ParseLoop(flags, before, 1, start)
    IN  [opts     |-> ApplyDefaults(flags, parsed.opts, opts.default),
         leftover |-> parsed.leftover \o
                      [j \in 1..Len(notFlags) |-> StringValue(notFlags[j])]]

\* args.help
HelpOf(a) == \E v \in Lookup(a.opts, optHelp) : Truthy(v)

----------------------------------------------------------------------------
(* Help text: a sequence of pieces, each a string that was or was not put  *)
(* through optionhelp.wrapText at some width (0: not wrapped).             *)

Piece(s, width) == [s |-> s, width |-> width]

\* MultiCommand.getHelpIntro
getHelpIntro(rightMargin) ==
    << Piece(<<"This tool supports the following commands:", "\n", "\n">>, 0) >>

\* MultiCommand.getHelpSummaryEntry
getHelpSummaryEntry(commandInfo, rightMargin) ==
    LET syntax == substr(commandInfo.syntax, Len(commandInfo.name))
    IN  << Piece(toUpperCase(commandInfo.name) \o syntax \o <<"\n">>, 0),
           Piece(<<" ", " ", commandInfo.summary>>, rightMargin),
           Piece(<<"\n">>, 0) >>

\* MultiCommand.getHelpTrailer
getHelpTrailer(rightMargin) == << Piece(<<"\n">>, 0) >>

\* the forEach of MultiCommand.getHelp from entry i on
RECURSIVE HelpEntries(_, _, _)
HelpEntries(infoArray, i, rightMargin) ==
    IF i > Len(infoArray) THEN <<>>
    ELSE (IF infoArray[i].firstOfGroup THEN << Piece(<<"\n">>, 0) >> ELSE <<>>)
         \o getHelpSummaryEntry(infoArray[i], rightMargin)
         \o HelpEntries(infoArray, i + 1, rightMargin)

\* the test on the number of commands missing
getHelpUnguarded(infoArray, rightMargin) ==
    getHelpIntro(rightMargin)
    \o HelpEntries(infoArray, 1, rightMargin)
    \o getHelpTrailer(rightMargin)

\* MultiCommand.getHelp
getHelp(infoArray, rightMargin) ==
    IF Len(infoArray) = 0
    THEN << Piece(<<"Help is not available.">>, 0) >>
    ELSE getHelpIntro(rightMargin)
         \o HelpEntries(infoArray, 1, rightMargin)
         \o getHelpTrailer(rightMargin)

\* the methods MultiCommand.getHelp calls, in order
getHelpCalls(infoArray) ==
    IF Len(infoArray) = 0 THEN <<>>
    ELSE <<"getHelpIntro">>
         \o [i \in 1..Len(infoArray) |-> "getHelpSummaryEntry"]
         \o <<"getHelpTrailer">>

\* NamedCommand.getHelp
commandGetHelp(cmd, rightMargin) == getHelpSummaryEntry(cmd.info, rightMargin)

\* the text a subclass that overrides getHelp returns
CustomHelp == << Piece(<<"custom help">>, 0) >>

----------------------------------------------------------------------------
(* run(): loading the command                                              *)

NoInfo ==
    [syntax |-> <<>>, summary |-> "", name |-> <<>>, normName |-> <<>>,
     commandClass |-> "", firstOfGroup |-> FALSE]

NoCommand == [multicommand |-> "", name |-> <<>>, info |-> NoInfo]

NoConfig ==
    [boolean |-> <<>>, alias |-> <<>>, string |-> <<>>, default |-> <<>>,
     other |-> <<>>, own |-> {}]

NoArgs == [opts |-> <<>>, leftover |-> <<>>, getNext |-> FALSE]

\* what the hooks of a run did: the options.add() calls of the option hook,
\* whether each hook returned or threw, which getHelp ran, how many times the
\* the methods it called, how many times the parse hook called args.getNext()
\* and what each call returned, how the execute hook completed, and the error
\* a hook threw
NoHooks == [added |-> <<>>, options |-> "", help |-> "", helpCalls |-> <<>>,
            parse |-> "", taken |-> 0, got |-> <<>>, perform |-> "", raised |-> NoError]

NoAdd == [called |-> FALSE, commandClasses |-> <<>>, before |-> <<>>, thrown |-> NoError]

\* the test without its look at the first character
IsCommandWordAnyFirst(tokens) == Len(tokens) > 0

\* argv.length > 0 && argv[0][0] !== '-'
IsCommandWord(tokens) ==
    Len(tokens) > 0 /\ (tokens[1] = <<>> \/ tokens[1][1] # "-")

\* the forEach of run() over commandInfoArray: the index of the last info whose
\* normName is commandName, 0 when commandInfo stays null
FindCommand(infoArray, commandName) ==
    LET M == {p \in 1..Len(infoArray) : infoArray[p].normName = commandName}
    IN  IF M = {} THEN 0 ELSE CHOOSE p \in M : \A q \in M : q <= p

\* a first word that names no command falls through to the default command
RouteUnknownToDefault(infoArray, tokens) ==
    IF IsCommandWord(tokens) /\ FindCommand(infoArray, toLowerCase(tokens[1])) # 0
    THEN "named"
    ELSE "default"

\* the help flag looked at before the command name: an unknown first word
\* with -h or --help after it is handled as a request for the default help
RouteHelpFirst(infoArray, tokens) ==
    IF IsCommandWord(tokens)
    THEN IF FindCommand(infoArray, toLowerCase(tokens[1])) = 0
         THEN IF \E i \in 1..Len(tokens) :
                    tokens[i] \in {<<"-", "h">>, <<"-", "-", "h", "e", "l", "p">>}
              THEN "default"
              ELSE "unrecognized"
         ELSE "named"
    ELSE "default"

\* which branch of run() handles argv
Route(infoArray, tokens) ==
    IF IsCommandWord(tokens)
    THEN IF FindCommand(infoArray, toLowerCase(tokens[1])) = 0
         THEN "unrecognized"
         ELSE "named"
    ELSE "default"

\* _init binding the normalized name instead of the name as registered
initNormName(multicommand, info) ==
    [multicommand |-> multicommand, name |-> info.normName, info |-> info]

\* NamedCommand._init(multicommand, info), on a new instance
_init(multicommand, info) ==
    [multicommand |-> multicommand, name |-> info.name, info |-> info]

\* what the callback `next` does when it is called: it returns, or it throws
\* (a CommandError, the class run()'s catch clause tests for)
Callbacks == {"returns", "throwsCommandError"}

\* the exception the callback raises when called (NoError: none)
CallbackThrows(callback) ==
    IF callback = "throwsCommandError"
    THEN Err("CommandError", "thrown by next", <<>>, "next")
    ELSE NoError

\* the error for a first word that names no command
UnrecognizedError(commandName) ==
    CommandUsageError("unrecognized command ", commandName, "run")

----------------------------------------------------------------------------
(* The inputs of the model                                                 *)

\* the command line arguments: -h, --help, -x, fo, 07
Tokens ==
    { <<"-", "h">>, <<"-", "-", "h", "e", "l", "p">>, <<"-", "x">>,
      <<"f", "o">>, <<"0", "7">> }

ArgVectors == UNION {[1..n -> Tokens] : n \in 0..MaxArgs}

\* the helpWrapWidth option given to the constructor; 0 stands for a missing
\* (or zero) option, which `||` replaces by the default
WrapWidthOptions == {40}

\* the constructor: this.helpWrapWidth = options.helpWrapWidth || DEFAULT_WRAP_WIDTH
constructor(option) == IF option = 0 THEN DEFAULT_WRAP_WIDTH ELSE option

\* the sequences of options.add() calls an option hook may make: none (the
\* inherited hook), or one call with one of the objects above
AddSequences == {<<>>} \cup {<<moreConfig>> : moreConfig \in Contributions}

\* the error classes a hook may throw (parseArgs), or pass to next (doCommand)
ErrorKinds == {"UnexpectedArgError", "CommandUsageError", "CommandError", "Error"}

\* NamedCommand.error(message, ...substitutions), called in hook `by`: a new
\* CommandError, returned; its message is util.format(message, ...substitutions),
\* kept as the format string and the values given for its % codes
error(by, message, substitutions) == Err("CommandError", message, substitutions, by)

\* NamedCommand.usageError(message, ...substitutions): a new CommandUsageError,
\* returned
usageError(by, message, substitutions) ==
    Err("CommandUsageError", message, substitutions, by)

\* the error object a hook makes, to throw it or to pass it to next: made with
\* this.error() or this.usageError(), or with new UnexpectedArgError(arg) for
\* an argument the hook does not accept, or with new Error(message)
HookError(kind, hook) ==
    CASE kind = "CommandError"       -> error(hook, "raised by hook", <<>>)
      [] kind = "CommandUsageError"  -> usageError(hook, "raised by hook", <<>>)
      [] kind = "UnexpectedArgError" -> [UnexpectedArgError(<<"0", "7">>) EXCEPT !.by = hook]
      [] OTHER                       -> Err(kind, "raised by hook", <<>>, hook)

\* what an execute hook does: the inherited default, or an override that calls
\* next(err) before returning, calls it in a later tick, or throws
PerformOutcomes ==
    {[how |-> "inherited", kind |-> "none"]}
    \cup {[how |-> "sync", kind |-> k] : k \in {"none", "CommandUsageError"}}
    \cup {[how |-> "async", kind |-> k] : k \in {"none", "CommandUsageError"}}
    \cup {[how |-> "throws", kind |-> "CommandUsageError"]}

----------------------------------------------------------------------------
(* The state machine                                                       *)

Init ==
    /\ commandInfoArray = <<>>
    /\ \E option \in WrapWidthOptions : helpWrapWidth = constructor(option)
    /\ lastAdd = NoAdd
    /\ pc = "idle"
    /\ argv = <<>>
    /\ cb = "returns"
    /\ route = "none"
    /\ command = NoCommand
    /\ configOptions = NoConfig
    /\ args = NoArgs
    /\ hooks = NoHooks
    /\ trace = <<>>
    /\ completions = <<>>
    /\ pending = <<>>
    /\ thrown = NoError
    /\ stdout = <<>>
    /\ groups = <<>>
    /\ prompts = <<>>

\* no operation is in progress and the record of the last one has been dropped
Quiet == pc = "idle" /\ pending = <<>>

\* addCommands(commandClasses)
addCommands(commandClasses) ==
    /\ Quiet
    /\ LET r == addEach(commandInfoArray, commandClasses, 1, TRUE)
       IN  /\ commandInfoArray' = r.infoArray
           /\ lastAdd' = [called |-> TRUE, commandClasses |-> commandClasses,
                          before |-> commandInfoArray, thrown |-> r.thrown]
           /\ groups' = IF Len(r.infoArray) > Len(commandInfoArray)
                        THEN Append(groups, SubSeq(commandClasses, 1,
                                       Len(r.infoArray) - Len(commandInfoArray)))
                        ELSE groups
    /\ pc' = "added"
    /\ UNCHANGED <<helpWrapWidth, argv, cb, route, command, configOptions, args,
                   hooks, trace, completions, pending, thrown, stdout,
                   prompts>>

\* one configuration object kept between calls: a run() that starts while an
\* earlier call is still in progress goes on with that call's object
SharedConfig(inProgress) ==
    IF inProgress = <<>> THEN InitialConfig
    ELSE inProgress[Len(inProgress)].configOptions

\* line 82: let configOptions = {...}, a new object in each call of run(),
\* whatever calls are still in progress
NewConfig(inProgress) == InitialConfig

\* a command instance taken from a pool kept by the MultiCommand: no `new`
LoadStepsReused == <<"_init">>

\* lines 102-103: let command = new commandInfo.commandClass(); command._init(...)
LoadSteps == <<"new", "_init">>

\* the body of run(argv, next), lines 78-103: the configuration object is
\* created and the command is loaded; an unrecognized first word ends the run
\* with next(err)
load(tokens, callback) ==
    /\ argv' = tokens
    /\ cb' = callback
    /\ route' = Route(commandInfoArray, tokens)
    /\ configOptions' = NewConfig(pending)
    /\ args' = NoArgs
    /\ hooks' = NoHooks
    /\ stdout' = <<>>
    /\ CASE Route(commandInfoArray, tokens) = "unrecognized" ->
               /\ command' = NoCommand
               /\ trace' = <<"next">>
               /\ completions' = << UnrecognizedError(toLowerCase(tokens[1])) >>
               /\ thrown' = CallbackThrows(callback)
               /\ pc' = "done"
         [] Route(commandInfoArray, tokens) = "named" ->
               /\ command' = _init("this",
                     commandInfoArray[FindCommand(commandInfoArray, toLowerCase(tokens[1]))])
               /\ trace' = LoadSteps
               /\ completions' = <<>>
               /\ thrown' = NoError
               /\ pc' = "addOptions"
         [] OTHER ->
               /\ command' = NoCommand
               /\ trace' = <<>>
               /\ completions' = <<>>
               /\ thrown' = NoError
               /\ pc' = "addOptions"

\* run() removing the command it dispatches to from commandInfoArray
runConsuming(tokens, callback) ==
    /\ Quiet
    /\ load(tokens, callback)
    /\ commandInfoArray' =
          IF Route(commandInfoArray, tokens) = "named"
          THEN LET found == FindCommand(commandInfoArray, toLowerCase(tokens[1]))
               IN  SubSeq(commandInfoArray, 1, found - 1)
                   \o SubSeq(commandInfoArray, found + 1, Len(commandInfoArray))
          ELSE commandInfoArray
    /\ UNCHANGED <<helpWrapWidth, groups, lastAdd, pending,
                   prompts>>

\* run(argv, next): the registry is only read
run(tokens, callback) ==
    /\ Quiet
    /\ load(tokens, callback)
    /\ UNCHANGED <<commandInfoArray, helpWrapWidth, groups, lastAdd, pending,
                   prompts>>

\* the names under which run() has bound the hooks of the loaded command
OptionsHook == IF route = "named" THEN "addOptions" ELSE "addDefaultOptions"
ParseHook   == IF route = "named" THEN "parseArgs" ELSE "parseDefaultArgs"
PerformHook == IF route = "named" THEN "doCommand" ELSE "doDefaultCommand"
HelpHook    == IF route = "named" THEN "NamedCommand.getHelp" ELSE "MultiCommand.getHelp"

\* the whole argv handed to minimist on the named path too
TokenizerInputWhole == argv

\* the arguments run() hands to minimist: argv.slice(1) for a named command
TokenizerInput == IF route = "named" THEN Tail(argv) ELSE argv

\* getHelp bound to the MultiCommand on the named path too
HelpTextAggregate(overridden) ==
    IF overridden THEN CustomHelp ELSE getHelp(commandInfoArray, helpWrapWidth)

\* getHelp(this.helpWrapWidth), through the binding run() made; a subclass may
\* have overridden the method
HelpText(overridden) ==
    IF overridden THEN CustomHelp
    ELSE IF route = "named" THEN commandGetHelp(command, helpWrapWidth)
    ELSE getHelp(commandInfoArray, helpWrapWidth)

\* the methods of the MultiCommand that the getHelp bound by run() calls
HelpCalls(overridden) ==
    IF overridden THEN <<>>
    ELSE IF route = "named" THEN <<"getHelpSummaryEntry">>
    ELSE getHelpCalls(commandInfoArray)

\* the help test missing: help is never shown
HelpRequestedNever(parsed) == FALSE

\* if (args.help)
HelpRequested(parsed) == HelpOf(parsed)

\* lines 134-136 missing: the leftover entries stay as minimist left them
PrepareArgsUncoerced(parsed) ==
    [opts |-> parsed.opts, leftover |-> parsed.leftover, getNext |-> TRUE]

\* line 137 missing: args is handed on without the accessor
PrepareArgsNoAccessor(parsed) ==
    [opts     |-> parsed.opts,
     leftover |-> [i \in 1..Len(parsed.leftover) |->
                      StringValue(String(parsed.leftover[i]))],
     getNext  |-> FALSE]

\* args._ = args._.map(arg => String(arg)); args.getNext = getNextNonOptionArg
PrepareArgs(parsed) ==
    [opts     |-> parsed.opts,
     leftover |-> [i \in 1..Len(parsed.leftover) |->
                      StringValue(String(parsed.leftover[i]))],
     getNext  |-> TRUE]

\* the catch clause testing for UnexpectedArgError only
IsCaughtUnexpectedOnly(err) == InstanceOf(err.kind, "UnexpectedArgError")

\* the catch clause testing for CommandUsageError
IsCaughtUsageOnly(err) == InstanceOf(err.kind, "CommandUsageError")

\* err instanceof errors.CommandError, the test of run()'s catch clause
IsCaught(err) == InstanceOf(err.kind, "CommandError")

\* the try block drawn around every hook call of run()
TryScopeWholeRun ==
    {"addOptions", "addDefaultOptions", "parseArgs", "parseDefaultArgs",
     "doCommand", "doDefaultCommand"}

\* the hook calls inside the try block of run(), lines 138-147
TryScope == {"parseArgs", "parseDefaultArgs"}

\* an error thrown by a hook is handled by the catch clause of run()
Caught(hook, err) == hook \in TryScope /\ IsCaught(err)

\* run(), lines 104-137: the option hook, the tokenizer, then help or the
\* preparation of args for the parse hook
runAddOptions ==
    /\ pc = "addOptions"
    /\ \/ \E kind \in {"CommandUsageError", "Error"} :
            \* the hook throws: the call is outside the try block
            LET err == HookError(kind, OptionsHook)
            IN  /\ hooks' = [hooks EXCEPT !.options = "throws", !.raised = err]
                /\ IF Caught(OptionsHook, err)
                   THEN /\ completions' = Append(completions, err)
                        /\ trace' = trace \o <<OptionsHook, "next">>
                        /\ thrown' = CallbackThrows(cb)
                   ELSE /\ thrown' = err
                        /\ trace' = Append(trace, OptionsHook)
                        /\ UNCHANGED completions
                /\ pc' = "done"
                /\ UNCHANGED <<configOptions, args, stdout>>
       \/ \E added \in AddSequences, overridden \in BOOLEAN :
            LET config == addAll(configOptions, added)
                parsed == minimist(TokenizerInput, config)
            IN  /\ configOptions' = config
                /\ IF HelpRequested(parsed)
                   THEN /\ hooks' = [hooks EXCEPT !.options = "returns", !.added = added,
                                       !.help = IF overridden THEN "overridden"
                                                              ELSE "inherited",
                                       !.helpCalls = HelpCalls(overridden)]
                        /\ args' = [opts |-> parsed.opts, leftover |-> parsed.leftover,
                                    getNext |-> FALSE]
                        /\ stdout' = << [text  |-> HelpText(overridden),
                                         width |-> helpWrapWidth] >>
                        /\ trace' = trace \o <<OptionsHook, "minimist", HelpHook,
                                               "stdout.write", "next">>
                        /\ completions' = Append(completions, NoError)
                        /\ thrown' = CallbackThrows(cb)
                        /\ pc' = "done"
                   ELSE /\ ~overridden
                        /\ hooks' = [hooks EXCEPT !.options = "returns", !.added = added]
                        /\ args' = PrepareArgs(parsed)
                        /\ trace' = trace \o <<OptionsHook, "minimist">>
                        /\ pc' = "parseArgs"
                        /\ UNCHANGED <<completions, stdout, thrown>>
    /\ UNCHANGED <<commandInfoArray, helpWrapWidth, groups, lastAdd, argv, cb, route,
                   command, pending,
                   prompts>>

\* the last leftover argument taken instead of the first (pop for shift)
getNextNonOptionArgLast(this) ==
    IF Len(this.leftover) = 0
    THEN [value |-> StringValue(<<>>), isNull |-> TRUE, this |-> this]
    ELSE [value |-> this.leftover[Len(this.leftover)], isNull |-> FALSE,
          this |-> [this EXCEPT !.leftover = SubSeq(this.leftover, 1,
                                                    Len(this.leftover) - 1)]]

\* getNextNonOptionArg, bound to args as args.getNext
getNextNonOptionArg(this) ==
    IF Len(this.leftover) = 0
    THEN [value |-> StringValue(<<>>), isNull |-> TRUE, this |-> this]
    ELSE [value |-> Head(this.leftover), isNull |-> FALSE,
          this |-> [this EXCEPT !.leftover = Tail(this.leftover)]]

\* args after a parse hook has called args.getNext() n times
RECURSIVE TakeNext(_, _)
TakeNext(this, n) ==
    IF n = 0 THEN this ELSE TakeNext(getNextNonOptionArg(this).this, n - 1)

\* what a call of args.getNext() returned: a string, or null
Returned(r) == [value |-> r.value, isNull |-> r.isNull]

\* what n calls of args.getNext() in a row return, in order
RECURSIVE GetNextReturns(_, _)
GetNextReturns(this, n) ==
    IF n = 0 THEN <<>>
    ELSE LET r == getNextNonOptionArg(this)
         IN  <<Returned(r)>> \o GetNextReturns(r.this, n - 1)

\* one call of args.getNext() made by the parse hook that run() has called
\* with args (line 139)
getNext ==
    /\ pc = "parseArgs"
    /\ Len(hooks.got) <= MaxArgs
    /\ LET r == getNextNonOptionArg(args)
       IN  /\ args' = r.this
           /\ hooks' = [hooks EXCEPT !.taken = @ + 1, !.got = Append(@, Returned(r))]
    /\ UNCHANGED <<commandInfoArray, helpWrapWidth, groups, lastAdd, pc, argv, cb, route,
                   command, configOptions, trace, completions, pending, thrown, stdout,
                   prompts>>

\* the length test off by one: a single leftover argument goes unnoticed
HasUnexpectedArgOffByOne(a) == Len(a.leftover) > 1

\* if (args._.length > 0), after the parse hook has returned
HasUnexpectedArg(a) == Len(a.leftover) > 0

\* the error built from the last leftover argument instead of the first
FirstUnexpectedLast(a) == String(a.leftover[Len(a.leftover)])

\* args._[0], the argument the UnexpectedArgError is built from
FirstUnexpected(a) == String(a.leftover[1])

\* run(), lines 138-147: the parse hook inside the try block
runParseArgs ==
    /\ pc = "parseArgs"
    /\ \/ \E kind \in ErrorKinds :
            \* the hook throws err
            LET err == HookError(kind, ParseHook)
            IN  /\ hooks' = [hooks EXCEPT !.parse = "throws", !.raised = err]
                /\ IF Caught(ParseHook, err)
                   THEN /\ completions' = Append(completions, err)
                        /\ trace' = trace \o <<ParseHook, "next">>
                        /\ thrown' = CallbackThrows(cb)
                   ELSE /\ thrown' = err
                        /\ trace' = Append(trace, ParseHook)
                        /\ UNCHANGED completions
                /\ pc' = "done"
                /\ UNCHANGED args
       \/ \E n \in 0..(Len(args.leftover) + 1) :
            \* the hook calls args.getNext() n (more) times and returns
            LET parsed == TakeNext(args, n)
                err    == UnexpectedArgError(FirstUnexpected(parsed))
                raised == CallbackThrows(cb)
            IN  /\ hooks' = [hooks EXCEPT !.parse = "returns", !.taken = @ + n,
                                        !.got = @ \o GetNextReturns(args, n)]
                /\ args' = parsed
                /\ IF HasUnexpectedArg(parsed)
                   THEN /\ pc' = "done"
                        /\ IF raised # NoError /\ IsCaught(raised)
                           THEN \* next(err) threw inside the try block and the catch
                                \* clause calls next again, with what it threw
                                /\ completions' = completions \o <<err, raised>>
                                /\ trace' = trace \o <<ParseHook, "next", "next">>
                           ELSE /\ completions' = Append(completions, err)
                                /\ trace' = trace \o <<ParseHook, "next">>
                        /\ thrown' = raised
                   ELSE /\ pc' = "doCommand"
                        /\ trace' = Append(trace, ParseHook)
                        /\ UNCHANGED <<completions, thrown>>
    /\ UNCHANGED <<commandInfoArray, helpWrapWidth, groups, lastAdd, argv, cb, route,
                   command, configOptions, pending, stdout,
                   prompts>>

\* NamedCommand.doCommand as inherited: next(new Error("Command '<name>' not implemented"))
NotImplementedError(cmd) == Err("Error", "Command not implemented ", cmd.name, "doCommand")

\* the test on the number of commands missing: always the usage error
doDefaultCommandAlwaysMissing(infoArray) ==
    CommandUsageError("Missing command argument", <<>>, "doDefaultCommand")

\* MultiCommand.doDefaultCommand as inherited
doDefaultCommand(infoArray) ==
    IF Len(infoArray) > 0
    THEN CommandUsageError("Missing command argument", <<>>, "doDefaultCommand")
    ELSE Err("Error", "Default command not implemented", <<>>, "doDefaultCommand")

\* the error an execute hook passes to next, or throws
PerformError(outcome) ==
    IF outcome.how = "inherited"
    THEN IF route = "named" THEN NotImplementedError(command)
                            ELSE doDefaultCommand(commandInfoArray)
    ELSE IF outcome.kind = "none" THEN NoError
    ELSE HookError(outcome.kind, PerformHook)

\* the inherited execute hooks returning without having called next
IsSynchronousOverrideOnly(how) == how = "sync"

\* the execute hook calls next in its own body, before it returns: the
\* inherited doCommand and doDefaultCommand do, an override may
IsSynchronous(how) == how \in {"inherited", "sync"}

\* what an execute hook that completes later holds on to: the error it will
\* pass to next, and the locals of its call of run() (its arguments, the
\* command instance, the configuration and args objects)
Suspended(err) ==
    [err |-> err, argv |-> argv, route |-> route, command |-> command,
     configOptions |-> configOptions, args |-> args,
     added |-> hooks.added, taken |-> hooks.taken]

\* run(), line 151: doCommand(args, next)
runDoCommand ==
    /\ pc = "doCommand"
    /\ \E outcome \in PerformOutcomes :
          LET err    == PerformError(outcome)
              throws == outcome.how = "throws"
              \* the call is outside the try block: what the hook throws leaves run()
              caught == throws /\ Caught(PerformHook, err)
              called == IsSynchronous(outcome.how) \/ caught
              \* what the call makes happen, in order; the hook returns unless it
              \* throws or the callback it called threw
              events == <<PerformHook>>
                        \o (IF called THEN <<"next">> ELSE <<>>)
                        \o (IF throws \/ (called /\ CallbackThrows(cb) # NoError)
                            THEN <<>> ELSE <<"hook returns">>)
          IN  /\ hooks' = [hooks EXCEPT !.perform = outcome.how,
                                        !.raised = IF throws THEN err ELSE NoError]
              /\ trace' = trace \o events
              /\ completions' = IF called THEN Append(completions, err)
                                          ELSE completions
              /\ pending' = IF outcome.how = "async" THEN Append(pending, Suspended(err))
                                                     ELSE pending
              /\ thrown' = CASE throws /\ ~caught       -> err
                             [] called                -> CallbackThrows(cb)
                             [] OTHER                 -> NoError
    /\ pc' = "done"
    /\ UNCHANGED <<commandInfoArray, helpWrapWidth, groups, lastAdd, argv, cb, route,
                   command, configOptions, args, stdout,
                   prompts>>

\* a later tick: a deferred completion calls next(err)
nextLater ==
    /\ pc = "done"
    /\ pending # <<>>
    /\ completions' = Append(completions, Head(pending).err)
    /\ trace' = Append(trace, "next")
    /\ pending' = Tail(pending)
    /\ UNCHANGED <<commandInfoArray, helpWrapWidth, groups, lastAdd, pc, argv, cb, route,
                   command, configOptions, args, hooks, thrown, stdout,
                   prompts>>

\* the record the model keeps of the last operation is dropped
drop ==
    /\ lastAdd' = NoAdd
    /\ pc' = "idle"
    /\ argv' = <<>>
    /\ cb' = "returns"
    /\ route' = "none"
    /\ command' = NoCommand
    /\ configOptions' = NoConfig
    /\ args' = NoArgs
    /\ hooks' = NoHooks
    /\ trace' = <<>>
    /\ completions' = <<>>
    /\ thrown' = NoError
    /\ stdout' = <<>>
    /\ UNCHANGED <<commandInfoArray, helpWrapWidth, groups, pending,
                   prompts>>

\* addCommands() is over, or run() has returned and every completion has been
\* delivered: the caller is done with the outcome, and the record the model
\* keeps of the operation is dropped
forget ==
    /\ pc \in {"added", "done"}
    /\ pending = <<>>
    /\ drop

\* the registry after the application has registered its commands
Registration == <<"FoCommand", "GoCommand">>

\* the argument vectors of the interleaved calls: fo / fo -x / -x 07
InterleavedArgs ==
    { << <<"f", "o">> >>,
      << <<"f", "o">>, <<"-", "x">> >>,
      << <<"-", "x">>, <<"0", "7">> >> }

\* addCommands(Registration) has been called on a new MultiCommand
InitRegistered ==
    /\ commandInfoArray = addEach(<<>>, Registration, 1, TRUE).infoArray
    /\ \E option \in WrapWidthOptions : helpWrapWidth = constructor(option)
    /\ lastAdd = NoAdd
    /\ pc = "idle"
    /\ argv = <<>>
    /\ cb = "returns"
    /\ route = "none"
    /\ command = NoCommand
    /\ configOptions = NoConfig
    /\ args = NoArgs
    /\ hooks = NoHooks
    /\ trace = <<>>
    /\ completions = <<>>
    /\ pending = <<>>
    /\ thrown = NoError
    /\ stdout = <<>>
    /\ groups = <<Registration>>
    /\ prompts = <<>>

\* run(argv, next) called while execute hooks of earlier calls have not
\* completed yet
runInterleaved(tokens) ==
    /\ pc = "idle"
    /\ Len(pending) < MaxSuspended
    /\ load(tokens, "returns")
    /\ UNCHANGED <<commandInfoArray, helpWrapWidth, groups, lastAdd, pending,
                   prompts>>

\* run() has returned to its caller, whether or not its execute hook has
\* completed
returned ==
    /\ pc = "done"
    /\ drop

\* a later tick, no run() being on the stack: the execute hook of one of the
\* calls in progress completes and calls next(err)
complete(i) ==
    /\ pc \in {"idle", "done"}
    /\ i \in 1..Len(pending)
    /\ completions' = Append(completions, pending[i].err)
    /\ trace' = Append(trace, "next")
    /\ pending' = SubSeq(pending, 1, i - 1) \o SubSeq(pending, i + 1, Len(pending))
    /\ UNCHANGED <<commandInfoArray, helpWrapWidth, groups, lastAdd, pc, argv, cb, route,
                   command, configOptions, args, hooks, thrown, stdout,
                   prompts>>

NextInterleaved ==
    \/ \E tokens \in InterleavedArgs : runInterleaved(tokens)
    \/ runAddOptions
    \/ runParseArgs
    \/ runDoCommand
    \/ \E i \in 1..MaxSuspended : complete(i)
    \/ returned

\* run() calls interleaved on a MultiCommand whose commands are registered
SpecInterleaved == InitRegistered /\ [][NextInterleaved]_vars

\* options.add(moreConfig), one call made by the option hook that run() has
\* called with configOptions (line 104 or 114)
add(moreConfig) ==
    /\ pc = "addOptions"
    /\ Len(hooks.added) < MaxAdds
    /\ configOptions' = addConfigOptions(configOptions, moreConfig)
    /\ hooks' = [hooks EXCEPT !.added = Append(hooks.added, moreConfig)]
    /\ UNCHANGED <<commandInfoArray, helpWrapWidth, groups, lastAdd, pc, argv, cb, route,
                   command, args, trace, completions, pending, thrown, stdout,
                   prompts>>

\* run([], next) of a new MultiCommand has reached the call of
\* addDefaultOptions(configOptions)
InitOptions ==
    /\ commandInfoArray = <<>>
    /\ \E option \in WrapWidthOptions : helpWrapWidth = constructor(option)
    /\ lastAdd = NoAdd
    /\ pc = "addOptions"
    /\ argv = <<>>
    /\ cb = "returns"
    /\ route = Route(<<>>, <<>>)
    /\ command = NoCommand
    /\ configOptions = InitialConfig
    /\ args = NoArgs
    /\ hooks = NoHooks
    /\ trace = <<>>
    /\ completions = <<>>
    /\ pending = <<>>
    /\ thrown = NoError
    /\ stdout = <<>>
    /\ groups = <<>>
    /\ prompts = <<>>

NextOptions == \E moreConfig \in OptionObjects : add(moreConfig)

\* the option hook seen call by call
SpecOptions == InitOptions /\ [][NextOptions]_vars

\* the command classes of the help pages: a syntax with arguments, a syntax
\* that is only a name, and a syntax that begins with a space
HelpClasses == {"FoCommand", "GoCommand", "PaddedCommand"}

HelpBatches == UNION {[1..n -> HelpClasses] : n \in 0..MaxBatch}

\* the argument vectors that ask for help: -h, --help, fo -h, go --help, xo -h
HelpVectors ==
    { << <<"-", "h">> >>,
      << <<"-", "-", "h", "e", "l", "p">> >>,
      << <<"f", "o">>, <<"-", "h">> >>,
      << <<"g", "o">>, <<"-", "-", "h", "e", "l", "p">> >>,
      << <<"x", "o">>, <<"-", "h">> >> }

NextHelp ==
    \/ \E commandClasses \in HelpBatches : addCommands(commandClasses)
    \/ \E tokens \in HelpVectors : run(tokens, "returns")
    \/ runAddOptions
    \/ forget

\* registration and requests for help
SpecHelp == Init /\ [][NextHelp]_vars

\* the most confirm() calls an execute hook makes
MaxPrompts == 2

\* the lines a user types at the prompt, without the line end: y, Y, yes, YES,
\* yEs, n, N, no, ye, yess, the empty line, and y with a space before or after
TypedLines ==
    { <<"y">>, <<"Y">>, <<"y", "e", "s">>, <<"Y", "E", "S">>, <<"y", "E", "s">>,
      <<"n">>, <<"N">>, <<"n", "o">>, <<"y", "e">>, <<"y", "e", "s", "s">>,
      <<>>, <<" ", "y">>, <<"y", " ">> }

\* the messages passed to confirm()
Messages == {"Proceed?"}

\* the schema confirm() hands to prompt.get:
\* { name: 'yesno', message: message + " (y/n)", default: 'n' }
Schema(message) ==
    [name |-> "yesno", message |-> <<message, " (y/n)">>, default |-> <<"n">>]

\* result.yesno as prompt.get delivers it for a typed line: the line as typed,
\* the default of the schema for an empty line
yesno(schema, line) == IF line = <<>> THEN schema.default ELSE line

\* the answer compared as typed, without toLowerCase()
confirmedAsTyped(line) ==
    line = <<"y">> \/ line = <<"y", "e", "s">>

\* the callback confirm() gives to prompt.get, lines 111-112: the second
\* argument of next(null, ...)
confirmed(line) ==
    LET answer == toLowerCase(line)
    IN  answer = <<"y">> \/ answer = <<"y", "e", "s">>

\* whether the last confirm() still waits for its line
Waiting == prompts # <<>> /\ prompts[Len(prompts)].waiting

\* NamedCommand.confirm(message, next): the prompt is shown
confirm(message) ==
    /\ Len(prompts) < MaxPrompts
    /\ ~Waiting
    /\ prompts' = Append(prompts, [schema |-> Schema(message), waiting |-> TRUE,
                                   typed |-> <<>>, calls |-> <<>>])
    /\ UNCHANGED <<registry, runVars, lastAdd, groups>>

\* the user types a line and hits enter: prompt.get calls the callback of
\* confirm(), which calls next(null, confirmed)
answer(line) ==
    /\ Waiting
    /\ LET last   == prompts[Len(prompts)]
           result == yesno(last.schema, line)
       IN  prompts' = [prompts EXCEPT ![Len(prompts)] =
                          [last EXCEPT !.waiting = FALSE,
                                       !.typed = line,
                                       !.calls = Append(@, [err |-> NoError,
                                                            confirmed |-> confirmed(result)])]]
    /\ UNCHANGED <<registry, runVars, lastAdd, groups>>

NextConfirm ==
    \/ \E message \in Messages : confirm(message)
    \/ \E line \in TypedLines : answer(line)

\* an execute hook asking for confirmation, prompt by prompt
SpecConfirm == InitRegistered /\ [][NextConfirm]_vars

\* the argument vectors of the runs whose parse hook is followed call by
\* call: fo or -x first, then any of fo, 07, -x
ParseVectors ==
    {tokens \in ArgVectors :
        /\ Len(tokens) >= 1
        /\ tokens[1] \in { <<"f", "o">>, <<"-", "x">> }
        /\ \A i \in 2..Len(tokens) :
              tokens[i] \in { <<"f", "o">>, <<"0", "7">>, <<"-", "x">> }}

NextParse ==
    \/ \E tokens \in ParseVectors : run(tokens, "returns")
    \/ runAddOptions
    \/ getNext
    \/ runParseArgs
    \/ runDoCommand
    \/ nextLater
    \/ forget

\* runs on a MultiCommand whose commands are registered, the parse hook seen
\* one args.getNext() call at a time
SpecParse == InitRegistered /\ [][NextParse]_vars

Next ==
    \/ \E commandClasses \in Batches : addCommands(commandClasses)
    \/ \E tokens \in ArgVectors, callback \in Callbacks : run(tokens, callback)
    \/ runAddOptions
    \/ runParseArgs
    \/ runDoCommand
    \/ nextLater
    \/ forget

Spec == Init /\ [][Next]_vars

----------------------------------------------------------------------------
(* Vocabulary of the properties                                            *)

InTrace(e) == \E i \in 1..Len(trace) : trace[i] = e

IsPrefix(a, b) == Len(a) <= Len(b) /\ \A i \in 1..Len(a) : a[i] = b[i]

\* a run() has been called and its record is kept
Running == pc \in {"addOptions", "parseArgs", "doCommand", "done"}

\* the steps of run() on the named-command path and on the default path
NamedOrder   == <<"new", "_init", "addOptions", "minimist", "parseArgs", "doCommand">>
DefaultOrder == <<"addDefaultOptions", "minimist", "parseDefaultArgs", "doDefaultCommand">>

StepEvents == {NamedOrder[i] : i \in 1..Len(NamedOrder)}
              \cup {DefaultOrder[i] : i \in 1..Len(DefaultOrder)}

IsStep(e) == e \in StepEvents

\* the steps among the calls made so far
Steps == SelectSeq(trace, IsStep)

ParseHooks   == {"parseArgs", "parseDefaultArgs"}
ExecuteHooks == {"doCommand", "doDefaultCommand"}

ParseRan   == \E e \in ParseHooks : InTrace(e)
ExecuteRan == \E e \in ExecuteHooks : InTrace(e)

\* two strings are equal up to letter case
SameUpToCase(a, b) ==
    /\ Len(a) = Len(b)
    /\ \A i \in 1..Len(a) : a[i] = b[i] \/ UpperChar(a[i]) = b[i] \/ a[i] = UpperChar(b[i])

\* the registered commands whose name is word up to letter case
Registered(word) ==
    {p \in 1..Len(commandInfoArray) : SameUpToCase(commandInfoArray[p].name, word)}

\* run() raised nothing of its own: nothing left it, or what left it is the
\* exception the completion callback raised when it was called
NothingThrownByRun ==
    /\ cb = "returns" => thrown = NoError
    /\ thrown # NoError => thrown.by = "next"

----------------------------------------------------------------------------
(* C1: on the named path the calls are made in the order new + _init,      *)
(* addOptions, tokenizer, parseArgs, doCommand, and on the default path in *)
(* the order addDefaultOptions, tokenizer, parseDefaultArgs,               *)
(* doDefaultCommand, each at most once; with the help flag unset the parse *)
(* hook is reached, and the execute hook runs exactly when the parse hook  *)
(* returned normally and left no leftover argument.                        *)
C1_FixedHookOrder ==
    /\ route = "named" => IsPrefix(Steps, NamedOrder)
    /\ route = "default" => IsPrefix(Steps, DefaultOrder)
    /\ ExecuteRan => hooks.parse = "returns" /\ args.leftover = <<>>
    /\ (pc = "done" /\ route \in {"named", "default"}
          /\ hooks.options = "returns" /\ ~HelpOf(args)) =>
            /\ ParseRan
            /\ (hooks.parse = "returns" /\ args.leftover = <<>>) => ExecuteRan

C1_Witness ==
    /\ pc = "done"
    /\ route = "named"
    /\ Steps = NamedOrder
    /\ hooks.taken >= 1

(* C2: when the parse hook returns normally and leaves leftover arguments, *)
(* next is called with an UnexpectedArgError built from the first of them  *)
(* and the execute hook is not called; whenever the execute hook is        *)
(* entered, no leftover argument remains.                                  *)
C2_UnexpectedArgFirst ==
    /\ (pc = "done" /\ hooks.parse = "returns" /\ args.leftover # <<>>) =>
          /\ completions # <<>>
          /\ completions[1] = [kind |-> "UnexpectedArgError",
                               text |-> "UnexpectedArgument: ",
                               arg  |-> args.leftover[1].s,
                               by   |-> "run"]
          /\ ~ExecuteRan
    /\ (pc = "doCommand" \/ ExecuteRan) => args.leftover = <<>>

C2_Witness ==
    /\ pc = "done"
    /\ hooks.parse = "returns"
    /\ Len(args.leftover) = 2
    /\ args.leftover[1].s = <<"7">>
    /\ args.leftover[2].s = <<"f", "o">>

(* C3: for a first word that does not begin with '-' and is no registered  *)
(* name up to letter case, run() calls next once with a CommandUsageError  *)
(* naming the lowercased word, raises nothing itself, creates no command   *)
(* instance and calls no hook, tokenizer or getHelp.                       *)
C3_UnrecognizedCommand ==
    (/\ Running
     /\ argv # <<>>
     /\ argv[1][1] # "-"
     /\ Registered(argv[1]) = {}) =>
        /\ pc = "done"
        /\ completions = << [kind |-> "CommandUsageError",
                             text |-> "unrecognized command ",
                             arg  |-> toLowerCase(argv[1]),
                             by   |-> "run"] >>
        /\ NothingThrownByRun
        /\ trace = <<"next">>
        /\ command = NoCommand
        /\ hooks = NoHooks
        /\ args = NoArgs
        /\ stdout = <<>>

C3_Witness ==
    /\ pc = "done"
    /\ argv # <<>>
    /\ argv[1] = <<"f", "o">>
    /\ commandInfoArray # <<>>
    /\ Registered(argv[1]) = {}
    /\ cb = "returns"

(* C4, as claimed: whenever argv does not begin with the name of a         *)
(* registered command (argv empty, first element beginning with '-', or a  *)
(* first word matching no command), run() takes the default-command path.  *)
C4_DefaultWheneverNoCommandName ==
    (Running /\ (argv = <<>> \/ Registered(argv[1]) = {})) =>
        /\ route = "default"
        /\ \A i \in 1..Len(Steps) : Steps[i] \in {DefaultOrder[j] : j \in 1..4}

(* C4, amended: run() takes the default-command path (its hooks are        *)
(* addDefaultOptions, parseDefaultArgs, doDefaultCommand) exactly when     *)
(* argv is empty or its first element begins with '-'; a first word that   *)
(* matches no registered command is not given to the default command.      *)
C4_DefaultPath ==
    Running =>
        /\ (argv = <<>> \/ argv[1][1] = "-") <=> route = "default"
        /\ route = "default" =>
              \A i \in 1..Len(Steps) : Steps[i] \in {DefaultOrder[j] : j \in 1..4}
        /\ (argv # <<>> /\ argv[1][1] # "-" /\ Registered(argv[1]) = {}) =>
              route = "unrecognized" /\ Steps = <<>>

C4_Witness ==
    /\ pc = "done"
    /\ route = "default"
    /\ Steps = DefaultOrder
    /\ argv # <<>>
    /\ commandInfoArray # <<>>

C6_UniqueNormNames ==
    /\ \A p, q \in 1..Len(commandInfoArray) :
          commandInfoArray[p].normName = commandInfoArray[q].normName => p = q
    /\ \A word \in Tokens : Cardinality(Registered(word)) <= 1

C6_Witness ==
    /\ pc = "added"
    /\ lastAdd.thrown # NoError
    /\ Len(lastAdd.before) = 1
    /\ Len(commandInfoArray) = 2

\* the name of the i-th class of the last addCommands() call, and whether it
\* equals up to letter case a name registered before the call or the name of
\* an earlier class of the same call
AddedName(i) == FirstTerm(getInfo(lastAdd.commandClasses[i]).syntax)

Collides(i) ==
    \/ \E p \in 1..Len(lastAdd.before) : SameUpToCase(lastAdd.before[p].name, AddedName(i))
    \/ \E j \in 1..(i - 1) : SameUpToCase(AddedName(j), AddedName(i))

Colliding == {i \in 1..Len(lastAdd.commandClasses) : Collides(i)}

(* C7: addCommands() throws the duplicate-name error, naming the           *)
(* normalized name, exactly when a class of its array collides up to       *)
(* letter case with a command of an earlier call or with an earlier class  *)
(* of the same array; it throws at the first such class, which is not      *)
(* appended (the classes before it are).                                   *)
C7_DuplicateNameThrows ==
    lastAdd.called =>
        LET before == lastAdd.before
            n      == Len(commandInfoArray) - Len(before)
        IN  /\ IsPrefix(before, commandInfoArray)
            /\ \A j \in 1..n :
                  commandInfoArray[Len(before) + j].commandClass = lastAdd.commandClasses[j]
            /\ IF Colliding = {}
               THEN /\ lastAdd.thrown = NoError
                    /\ n = Len(lastAdd.commandClasses)
               ELSE LET k == CHOOSE i \in Colliding : \A j \in Colliding : i <= j
                    IN  /\ lastAdd.thrown = [kind |-> "Error",
                                             text |-> "duplicate command name ",
                                             arg  |-> toLowerCase(AddedName(k)),
                                             by   |-> "addCommands"]
                        /\ n = k - 1

C7_Witness ==
    /\ lastAdd.called
    /\ lastAdd.before = <<>>
    /\ lastAdd.commandClasses = <<"FoCommand", "FoShadow">>
    /\ lastAdd.thrown # NoError
    /\ Len(commandInfoArray) = 1

\* the configuration still declares -h as a boolean with the alias help
HelpDeclared ==
    /\ \E i \in 1..Len(configOptions.boolean) : configOptions.boolean[i] = optH
    /\ Lookup(configOptions.alias, optH) = {optHelp}

HelpTokens == { <<"-", "h">>, <<"-", "-", "h", "e", "l", "p">> }

(* C8: on the default path, when -h or --help is given (the parsed help    *)
(* flag is set), run() writes the text of the MultiCommand's getHelp and   *)
(* calls next once with no error; parseDefaultArgs and doDefaultCommand    *)
(* are not called.                                                         *)
C8_DefaultHelp ==
    /\ (route = "default" /\ hooks.options = "returns" /\ HelpDeclared
          /\ \E i \in 1..Len(argv) : argv[i] \in HelpTokens) => HelpOf(args)
    /\ (route = "default" /\ HelpOf(args)) =>
          /\ pc = "done"
          /\ InTrace("MultiCommand.getHelp")
          /\ ~InTrace("NamedCommand.getHelp")
          /\ stdout = << [text  |-> IF hooks.help = "inherited"
                                    THEN getHelp(commandInfoArray, helpWrapWidth)
                                    ELSE CustomHelp,
                          width |-> helpWrapWidth] >>
          /\ completions = <<NoError>>
          /\ ~ParseRan
          /\ ~ExecuteRan

C8_Witness ==
    /\ pc = "done"
    /\ route = "default"
    /\ HelpOf(args)
    /\ hooks.help = "inherited"
    /\ Len(commandInfoArray) = 2
    /\ args.leftover # <<>>

(* C9: on the named path, when the parsed help flag is set, run() writes   *)
(* the text of the command instance's own getHelp, never the aggregate     *)
(* help, and calls next once with no error; parseArgs and doCommand are    *)
(* not called.                                                             *)
C9_NamedHelp ==
    /\ (route = "named" /\ hooks.options = "returns" /\ HelpDeclared
          /\ \E i \in 2..Len(argv) : argv[i] \in HelpTokens) => HelpOf(args)
    /\ (route = "named" /\ HelpOf(args)) =>
          /\ pc = "done"
          /\ InTrace("NamedCommand.getHelp")
          /\ ~InTrace("MultiCommand.getHelp")
          /\ stdout = << [text  |-> IF hooks.help = "inherited"
                                    THEN getHelpSummaryEntry(command.info, helpWrapWidth)
                                    ELSE CustomHelp,
                          width |-> helpWrapWidth] >>
          /\ stdout[1].text # getHelp(commandInfoArray, helpWrapWidth)
          /\ completions = <<NoError>>
          /\ ~ParseRan
          /\ ~ExecuteRan

C9_Witness ==
    /\ pc = "done"
    /\ route = "named"
    /\ HelpOf(args)
    /\ hooks.help = "inherited"
    /\ argv[2] = <<"-", "-", "h", "e", "l", "p">>

(* C10: when the parse hook throws a CommandUsageError or an instance of a *)
(* subclass, run() raises nothing itself: it calls next once, with the     *)
(* error the hook threw, and does not call the execute hook.               *)
C10_UsageErrorForwarded ==
    (hooks.parse = "throws" /\ InstanceOf(hooks.raised.kind, "CommandUsageError")) =>
        /\ pc = "done"
        /\ completions = <<hooks.raised>>
        /\ NothingThrownByRun
        /\ thrown # hooks.raised
        /\ ~ExecuteRan

C10_Witness ==
    /\ pc = "done"
    /\ hooks.parse = "throws"
    /\ hooks.raised.kind = "CommandUsageError"
    /\ hooks.raised.by = "parseDefaultArgs"
    /\ cb = "returns"

(* C11, as claimed: when the parse hook throws anything that is not a      *)
(* CommandUsageError (a plain CommandError included), the error leaves     *)
(* run() unchanged and next is not called.                                 *)
C11_NonUsageErrorEscapes ==
    (hooks.parse = "throws" /\ ~InstanceOf(hooks.raised.kind, "CommandUsageError")) =>
        /\ pc = "done"
        /\ thrown = hooks.raised
        /\ completions = <<>>

(* C11, amended: when the parse hook throws an error that is not an        *)
(* instance of CommandError, the error leaves run() unchanged, next is not *)
(* called and the execute hook does not run; a plain CommandError is       *)
(* caught like a CommandUsageError and given to next.                      *)
C11_NonCommandErrorEscapes ==
    /\ (hooks.parse = "throws" /\ ~InstanceOf(hooks.raised.kind, "CommandError")) =>
          /\ pc = "done"
          /\ thrown = hooks.raised
          /\ completions = <<>>
          /\ ~InTrace("next")
          /\ ~ExecuteRan
    /\ (hooks.parse = "throws" /\ hooks.raised.kind = "CommandError") =>
          /\ pc = "done"
          /\ completions = <<hooks.raised>>
          /\ thrown # hooks.raised
          /\ ~ExecuteRan

C11_Witness ==
    /\ pc = "done"
    /\ hooks.parse = "throws"
    /\ hooks.raised.kind = "Error"
    /\ hooks.raised.by = "parseArgs"
    /\ thrown = hooks.raised
    /\ cb = "throwsCommandError"

(* C12: an error of any class thrown by the option hook (addOptions,       *)
(* addDefaultOptions) or by the execute hook (doCommand, doDefaultCommand) *)
(* leaves run() as thrown: run() does not call next for it, and after a    *)
(* throwing option hook nothing further is called.                         *)
C12_HookErrorsEscape ==
    /\ hooks.options = "throws" =>
          /\ pc = "done"
          /\ thrown = hooks.raised
          /\ completions = <<>>
          /\ trace \in {<<"new", "_init", "addOptions">>, <<"addDefaultOptions">>}
    /\ hooks.perform = "throws" =>
          /\ pc = "done"
          /\ thrown = hooks.raised
          /\ completions = <<>>
          /\ ~InTrace("next")

C12_Witness ==
    /\ pc = "done"
    /\ hooks.perform = "throws"
    /\ hooks.raised = HookError("CommandUsageError", "doCommand")
    /\ thrown = hooks.raised

(* C13: run() with an empty argv takes the default path; when the option   *)
(* and parse hooks return, the execute hook runs, and the inherited        *)
(* doDefaultCommand makes the one call of next: with a plain Error         *)
(* "Default command not implemented" when no command is registered, with   *)
(* a CommandUsageError "Missing command argument" otherwise.               *)
C13_EmptyArgvDefaultCommand ==
    (Running /\ argv = <<>>) =>
        /\ route = "default"
        /\ (pc = "done" /\ hooks.options = "returns" /\ hooks.parse = "returns") =>
              InTrace("doDefaultCommand")
        /\ hooks.perform = "inherited" =>
              /\ pc = "done"
              /\ pending = <<>>
              /\ completions =
                    << IF Len(commandInfoArray) = 0
                       THEN [kind |-> "Error", text |-> "Default command not implemented",
                             arg |-> <<>>, by |-> "doDefaultCommand"]
                       ELSE [kind |-> "CommandUsageError", text |-> "Missing command argument",
                             arg |-> <<>>, by |-> "doDefaultCommand"] >>
              /\ Len(commandInfoArray) = 0 => ~InstanceOf(completions[1].kind, "CommandError")

C13_Witness ==
    /\ pc = "done"
    /\ argv = <<>>
    /\ hooks.perform = "inherited"
    /\ Len(commandInfoArray) = 2
    /\ completions # <<>>
    /\ completions[1].kind = "CommandUsageError"

\* a line break outside any entry: after an entry's own final line break it
\* makes one blank line
BlankLine == Piece(<<"\n">>, 0)

\* the summary entries of the classes of one addCommands() call, in order
RECURSIVE EntriesOf(_, _)
EntriesOf(commandClasses, i) ==
    IF i > Len(commandClasses) THEN <<>>
    ELSE getHelpSummaryEntry(CommandInfo(commandClasses[i], FALSE), helpWrapWidth)
         \o EntriesOf(commandClasses, i + 1)

\* one blank line, then the entries of a group, for each group from g on
RECURSIVE GroupsHelp(_)
GroupsHelp(g) ==
    IF g > Len(groups) THEN <<>>
    ELSE <<BlankLine>> \o EntriesOf(groups[g], 1) \o GroupsHelp(g + 1)

\* the classes of all groups, in registration order
RECURSIVE GroupedClasses(_)
GroupedClasses(g) ==
    IF g > Len(groups) THEN <<>> ELSE groups[g] \o GroupedClasses(g + 1)

(* C14: the text of MultiCommand.getHelp is the intro, then for each       *)
(* addCommands() call that registered commands one blank line followed by  *)
(* one summary entry per command of that call, in registration order, and  *)
(* the trailer: groups are separated by exactly one blank line and no      *)
(* blank line stands between the entries of one call.                      *)
C14_HelpGroups ==
    /\ GroupedClasses(1) =
          [i \in 1..Len(commandInfoArray) |-> commandInfoArray[i].commandClass]
    /\ \A g \in 1..Len(groups) : groups[g] # <<>>
    /\ groups # <<>> =>
          getHelp(commandInfoArray, helpWrapWidth) =
              getHelpIntro(helpWrapWidth) \o GroupsHelp(1) \o getHelpTrailer(helpWrapWidth)

C14_Witness ==
    /\ pc = "done"
    /\ route = "default"
    /\ hooks.help = "inherited"
    /\ groups = << <<"GoCommand">>, <<"FoCommand">> >>
    /\ stdout # <<>>
    /\ stdout[1].text = getHelpIntro(helpWrapWidth) \o GroupsHelp(1)
                           \o getHelpTrailer(helpWrapWidth)

OptionNames == {optH, optHelp, optX, optB, optA}

\* the names a moreConfig object gives under key (boolean, string), and the
\* map it gives under key (alias, default)
NamesIn(moreConfig, key) ==
    LET WithKey(p) == p.key = key
        ps == SelectSeq(moreConfig, WithKey)
    IN  IF ps = <<>> THEN <<>> ELSE ps[1].names

MapIn(moreConfig, key) ==
    LET WithKey(p) == p.key = key
        ps == SelectSeq(moreConfig, WithKey)
    IN  IF ps = <<>> THEN <<>> ELSE ps[1].map

\* the names contributed under key by a chain of objects, in contribution order
RECURSIVE Contributed(_, _)
Contributed(chain, key) ==
    IF chain = <<>> THEN <<>>
    ELSE NamesIn(Head(chain), key) \o Contributed(Tail(chain), key)

\* the value the last object of the chain that mentions k under key gives it,
\* or the initial value when none mentions it (as a set: empty when k has no value)
LastGiven(chain, key, k, initial) ==
    LET mentions == {i \in 1..Len(chain) : HasKey(MapIn(chain[i], key), k)}
    IN  IF mentions = {} THEN Lookup(initial, k)
        ELSE LET last == CHOOSE i \in mentions : \A j \in mentions : j <= i
             IN  Lookup(MapIn(chain[last], key), k)

(* C15: after any chain of options.add() calls on the configuration object *)
(* run() creates, boolean is ['h'] followed by the contributed boolean     *)
(* names in contribution order, string is the contributed string names in  *)
(* contribution order, and each key of default and alias has the value of  *)
(* the last contribution that mentions it (alias h starts as 'help');      *)
(* chaining {boolean:['a']} and {string:['b'], default:{b:'z'}} in either  *)
(* order gives a in boolean, b in string, default b = 'z', alias h = help. *)
C15_SchemaMerge ==
    (Running /\ hooks.options # "throws") =>
        LET chain == hooks.added
        IN  /\ configOptions.boolean = <<optH>> \o Contributed(chain, "boolean")
            /\ configOptions.string = Contributed(chain, "string")
            /\ \A k \in OptionNames :
                  /\ Lookup(configOptions.default, k) = LastGiven(chain, "default", k, <<>>)
                  /\ Lookup(configOptions.alias, k) =
                        LastGiven(chain, "alias", k, InitialConfig.alias)
            /\ chain \in {<<BooleanA, StringB>>, <<StringB, BooleanA>>} =>
                  /\ configOptions.boolean = <<optH, optA>>
                  /\ configOptions.string = <<optB>>
                  /\ configOptions.default = << <<optB, <<"z">> >> >>
                  /\ configOptions.alias = << <<optH, optHelp>> >>

C15_Witness ==
    /\ pc = "addOptions"
    /\ hooks.added = <<Overrides, StringB, BooleanA>>
    /\ configOptions.boolean = <<optH, optA>>
    /\ Lookup(configOptions.default, optB) = {<<"z">>}

(* C16, as claimed: whatever the option hook adds with options.add(), the  *)
(* configuration that goes to minimist has h in its boolean list and       *)
(* relates h and help in its alias map, so that -h sets the help flag.     *)
C16_HelpAlwaysDeclared ==
    (Running /\ hooks.options # "throws") =>
        /\ HelpDeclared
        /\ HelpOf(minimist(<< <<"-", "h">> >>, configOptions))

IsAddCommands == pc = "idle" /\ pc' = "added"

(* C18: no step of run() changes commandInfoArray (names, normalized       *)
(* names, firstOfGroup flags, classes, order) or helpWrapWidth, whatever   *)
(* the arguments and the outcome; addCommands() does not change            *)
(* helpWrapWidth.                                                          *)
C18_RunLeavesRegistry ==
    [][ /\ helpWrapWidth' = helpWrapWidth
        /\ ~IsAddCommands => commandInfoArray' = commandInfoArray ]_vars

C18_Witness ==
    /\ pc = "done"
    /\ route = "named"
    /\ thrown # NoError
    /\ Len(commandInfoArray) = 2
    /\ helpWrapWidth = 40

\* the positions in the trace of the calls of next
NextCalls == {i \in 1..Len(trace) : trace[i] = "next"}

Alone(tokens, added, taken) ==
    LET r      == Route(commandInfoArray, tokens)
        config == addAll(InitialConfig, added)
        input  == IF r = "named" THEN Tail(tokens) ELSE tokens
    IN  [route         |-> r,
         command       |-> IF r = "named"
                           THEN _init("this", commandInfoArray[
                                    FindCommand(commandInfoArray, toLowerCase(tokens[1]))])
                           ELSE NoCommand,
         configOptions |-> config,
         args          |-> TakeNext(PrepareArgs(minimist(input, config)), taken)]

\* the locals of a call are those it computes alone
AsAlone(call) ==
    LET alone == Alone(call.argv, call.added, call.taken)
    IN  /\ call.route = alone.route
        /\ call.command = alone.command
        /\ call.configOptions = alone.configOptions
        /\ call.args = alone.args

----------------------------------------------------------------------------
\* the leftover arguments run() hands to the parse hook of the current run
HandedOver == PrepareArgs(minimist(TokenizerInput, configOptions)).leftover

Min(a, b) == IF a <= b THEN a ELSE b

\* null, as args.getNext() returns it
Null == [value |-> StringValue(<<>>), isNull |-> TRUE]

(* C21: args.getNext() takes the leftover arguments first in, first out:   *)
(* the i-th call returns the i-th leftover argument handed to the parse    *)
(* hook and removes exactly it, the rest keeping its order; a call on an   *)
(* empty sequence returns null and changes nothing.  So k+1 calls on k     *)
(* leftover arguments return them in command-line order, then null, and    *)
(* leave the sequence empty.                                               *)
C21_GetNextFifo ==
    hooks.got # <<>> =>
        LET L == HandedOver
            n == Len(hooks.got)
        IN  /\ n = hooks.taken
            /\ \A i \in 1..n :
                  hooks.got[i] = IF i <= Len(L)
                                 THEN [value |-> L[i], isNull |-> FALSE]
                                 ELSE Null
            /\ args.leftover = SubSeq(L, Min(n, Len(L)) + 1, Len(L))
            /\ args.opts = minimist(TokenizerInput, configOptions).opts
            /\ n > Len(L) => args.leftover = <<>>

C21_Witness ==
    /\ pc = "parseArgs"
    /\ Len(HandedOver) = 2
    /\ HandedOver[1] # HandedOver[2]
    /\ Len(hooks.got) = 3
    /\ hooks.got[3].isNull
    /\ args.leftover = <<>>

----------------------------------------------------------------------------
(* C22: whenever parseDefaultArgs is invoked (the default path, the help   *)
(* flag unset), the leftover sequence args._ it receives is empty.         *)
C22_DefaultLeftoverEmpty ==
    (pc = "parseArgs" /\ route = "default") => args.leftover = <<>>

----------------------------------------------------------------------------
----------------------------------------------------------------------------
\* the lines that spell y or yes in any letter case
YesLines ==
    {<<a>> : a \in {"y", "Y"}}
    \cup {<<a, b, c>> : a \in {"y", "Y"}, b \in {"e", "E"}, c \in {"s", "S"}}

(* C24: confirm() calls its completion exactly once for each answered      *)
(* prompt and not before the answer, with no error, and with confirmed     *)
(* true exactly when the typed line is y or yes in any letter case; every  *)
(* other line, the empty line (default n) and a line with surrounding      *)
(* white space included, gives false.                                      *)
C24_ConfirmYesOnly ==
    \A i \in 1..Len(prompts) :
        IF prompts[i].waiting
        THEN prompts[i].calls = <<>>
        ELSE /\ Len(prompts[i].calls) = 1
             /\ prompts[i].calls[1].err = NoError
             /\ prompts[i].calls[1].confirmed = (prompts[i].typed \in YesLines)

C24_Witness ==
    /\ Len(prompts) = 2
    /\ ~Waiting
    /\ prompts[1].typed = <<"Y", "E", "S">>
    /\ prompts[1].calls[1].confirmed
    /\ prompts[2].typed = <<>>
    /\ ~prompts[2].calls[1].confirmed

----------------------------------------------------------------------------
\* the error objects of the current state
ErrorsSeen ==
    {hooks.raised, thrown} \cup {completions[i] : i \in 1..Len(completions)}
    \cup {pending[i].err : i \in 1..Len(pending)}

CommandErrorKinds == {"UnexpectedArgError", "CommandUsageError", "CommandError"}

(* C25: the error kinds are layered (an UnexpectedArgError is a            *)
(* CommandUsageError, a CommandUsageError is a CommandError); error()      *)
(* returns a CommandError that is not usage-kind and usageError() a        *)
(* CommandUsageError, neither raising anything; the message of an          *)
(* UnexpectedArgError is its fixed prefix and the offending token; and     *)
(* each of the three kinds, raised by the parse hook, is caught by run()   *)
(* and handed to the completion callback.                                  *)
C25_ErrorKindsLayered ==
    /\ \A e \in ErrorsSeen :
          /\ InstanceOf(e.kind, "UnexpectedArgError") =>
                /\ InstanceOf(e.kind, "CommandUsageError")
                /\ e.text = "UnexpectedArgument: "
                /\ e = [UnexpectedArgError(e.arg) EXCEPT !.by = e.by]
          /\ InstanceOf(e.kind, "CommandUsageError") => InstanceOf(e.kind, "CommandError")
          /\ e.kind \in CommandErrorKinds => InstanceOf(e.kind, "Error")
    /\ \A hook \in ParseHooks \cup ExecuteHooks :
          /\ error(hook, "raised by hook", <<>>).kind = "CommandError"
          /\ ~InstanceOf(error(hook, "raised by hook", <<>>).kind, "CommandUsageError")
          /\ InstanceOf(usageError(hook, "raised by hook", <<>>).kind, "CommandUsageError")
          /\ ~InstanceOf(usageError(hook, "raised by hook", <<>>).kind, "UnexpectedArgError")
    \* an error the execute hook made with usageError() and passed to next was
    \* not raised
    /\ (hooks.perform = "sync" /\ completions # <<>>
            /\ completions[Len(completions)].by = PerformHook) =>
          (thrown = NoError \/ thrown.by = "next")
    /\ (hooks.parse = "throws" /\ hooks.raised.kind \in CommandErrorKinds) =>
          /\ completions = <<hooks.raised>>
          /\ thrown # hooks.raised

C25_Witness ==
    /\ hooks.parse = "throws"
    /\ hooks.raised.kind = "UnexpectedArgError"
    /\ completions = <<hooks.raised>>
    /\ thrown = NoError

----------------------------------------------------------------------------
\* the leftover entries as the tokenizer delivered them in the current run
Tokenized == minimist(TokenizerInput, configOptions).leftover

(* C26: when the parse hook is called every leftover entry is a string:    *)
(* the entries the tokenizer delivered, as many and in the same order, a   *)
(* number replaced by its decimal string form; and whatever a parse or     *)
(* execute hook sees afterwards in args._ is a string.                     *)
C26_LeftoverCoerced ==
    /\ (pc = "parseArgs" /\ hooks.got = <<>>) =>
          /\ Len(args.leftover) = Len(Tokenized)
          /\ \A i \in 1..Len(Tokenized) :
                /\ Tokenized[i].t = "number" =>
                      args.leftover[i] = StringValue(NatToString(Tokenized[i].n))
                /\ Tokenized[i].t = "string" => args.leftover[i] = Tokenized[i]
    /\ (pc \in {"parseArgs", "doCommand"} \/ ParseRan) =>
          \A i \in 1..Len(args.leftover) : args.leftover[i].t = "string"

C26_Witness ==
    /\ pc = "parseArgs"
    /\ Len(Tokenized) = 2
    /\ Tokenized[1].t = "string"
    /\ Tokenized[2] = NumberValue(7)
    /\ args.leftover[2] = StringValue(<<"7">>)

----------------------------------------------------------------------------
(* C27: the configuration object handed to the option hook of a run is new *)
(* and holds exactly boolean: ['h'] and alias: {h: 'help'}, with no string *)
(* and no default entry, whatever the option hooks of earlier calls of     *)
(* run() contributed, on either path.                                      *)
C27_FreshAccumulator ==
    (pc = "addOptions" /\ hooks.added = <<>>) =>
        /\ configOptions.boolean = << <<"h">> >>
        /\ configOptions.alias = << << <<"h">>, <<"h", "e", "l", "p">> >> >>
        /\ configOptions.string = <<>>
        /\ configOptions.default = <<>>
        /\ configOptions.other = <<>>
        /\ configOptions.own = {"boolean", "alias", "add"}

C27_Witness ==
    /\ pc = "addOptions"
    /\ route = "default"
    /\ Len(pending) = 1
    /\ pending[1].route = "named"
    /\ pending[1].added # <<>>
    /\ configOptions # pending[1].configOptions

----------------------------------------------------------------------------
\* argv without its first element
AllButFirst(tokens) == [i \in 1..(Len(tokens) - 1) |-> tokens[i + 1]]

\* the step of run() in which the option hook returns and the tokenizer runs
IsTokenizing == pc = "addOptions" /\ hooks'.options = "returns"

(* C28: on the named path the tokenizer is given argv without its first    *)
(* element, so that the command name is not among the leftover arguments,  *)
(* and on the default path the whole argv; no step of run() changes argv.  *)
C28_TokenizerInput ==
    [][ /\ (IsTokenizing /\ route = "named") =>
              LET parsed == minimist(AllButFirst(argv), configOptions')
              IN  /\ args'.opts = parsed.opts
                  /\ Len(args'.leftover) = Len(parsed.leftover)
                  /\ \A i \in 1..Len(parsed.leftover) :
                        String(args'.leftover[i]) = String(parsed.leftover[i])
                  /\ Len(args'.leftover) < Len(argv)
        /\ (IsTokenizing /\ route = "default") =>
              LET parsed == minimist(argv, configOptions')
              IN  /\ args'.opts = parsed.opts
                  /\ Len(args'.leftover) = Len(parsed.leftover)
                  /\ \A i \in 1..Len(parsed.leftover) :
                        String(args'.leftover[i]) = String(parsed.leftover[i])
        /\ pc \in {"addOptions", "parseArgs", "doCommand"} => argv' = argv
      ]_vars

C28_Witness ==
    /\ pc = "parseArgs"
    /\ route = "named"
    /\ argv = << <<"f", "o">>, <<"f", "o">>, <<"0", "7">> >>
    /\ args.leftover = << StringValue(<<"f", "o">>), StringValue(<<"7">>) >>

----------------------------------------------------------------------------
\* the part of a syntax string that follows its first term
AfterName(syntax) ==
    LET first == CHOOSE i \in 1..Len(syntax) : syntax[i] # " " /\
                     \A j \in 1..(i - 1) : syntax[j] = " "
        last  == CHOOSE i \in first..Len(syntax) :
                     /\ \A j \in first..i : syntax[j] # " "
                     /\ i < Len(syntax) => syntax[i + 1] = " "
    IN  [i \in 1..(Len(syntax) - last) |-> syntax[last + i]]

\* the entry of a command on a help page: the name in upper case and what
\* follows it in the syntax, then the summary indented by two spaces, wrapped
SummaryEntry(info, width) ==
    << Piece(toUpperCase(info.name) \o AfterName(info.syntax) \o <<"\n">>, 0),
       Piece(<<" ", " ", info.summary>>, width),
       Piece(<<"\n">>, 0) >>

(* C29: for every registered command, whatever syntax string addCommands() *)
(* accepted (leading spaces, or a name alone), getHelpSummaryEntry gives   *)
(* the name in upper case directly followed by the rest of the syntax      *)
(* string after the name, then a line with the summary indented by two     *)
(* spaces; the help of a named command shows that entry.                   *)
C29_SummaryEntry ==
    /\ \A p \in 1..Len(commandInfoArray) :
          getHelpSummaryEntry(commandInfoArray[p], helpWrapWidth)
              = SummaryEntry(commandInfoArray[p], helpWrapWidth)
    /\ (route = "named" /\ hooks.help = "inherited") =>
          stdout = << [text |-> SummaryEntry(command.info, helpWrapWidth),
                       width |-> helpWrapWidth] >>

----------------------------------------------------------------------------
\* the sequences of a sequence, one after the other
RECURSIVE Flatten(_)
Flatten(ss) == IF ss = <<>> THEN <<>> ELSE Head(ss) \o Flatten(Tail(ss))

\* the entries of the registered commands, a blank line before each first of
\* a group
RegisteredEntries ==
    Flatten([p \in 1..Len(commandInfoArray) |->
                (IF commandInfoArray[p].firstOfGroup THEN <<BlankLine>> ELSE <<>>)
                \o getHelpSummaryEntry(commandInfoArray[p], helpWrapWidth)])

(* C30: with no command registered the aggregate getHelp returns the fixed *)
(* text "Help is not available." and calls none of getHelpIntro,           *)
(* getHelpSummaryEntry, getHelpTrailer; with at least one it returns the   *)
(* intro, the entries and the trailer, in that order and nothing else, the *)
(* trailer being one blank line.                                           *)
C30_AggregateHelp ==
    (route = "default" /\ hooks.help = "inherited") =>
        /\ Len(stdout) = 1
        /\ IF commandInfoArray = <<>>
           THEN /\ stdout[1].text = << Piece(<<"Help is not available.">>, 0) >>
                /\ hooks.helpCalls = <<>>
           ELSE /\ stdout[1].text =
                      getHelpIntro(helpWrapWidth) \o RegisteredEntries \o <<BlankLine>>
                /\ hooks.helpCalls =
                      <<"getHelpIntro">>
                      \o [p \in 1..Len(commandInfoArray) |-> "getHelpSummaryEntry"]
                      \o <<"getHelpTrailer">>

C30_Witness ==
    /\ route = "default"
    /\ hooks.help = "inherited"
    /\ commandInfoArray = <<>>
    /\ argv = << <<"-", "-", "h", "e", "l", "p">> >>
    /\ stdout # <<>>

----------------------------------------------------------------------------
\* the positions of commandInfoArray at which an addCommands() call began to
\* append
RECURSIVE GroupStarts(_, _)
GroupStarts(g, at) ==
    IF g > Len(groups) THEN {}
    ELSE {at} \cup GroupStarts(g + 1, at + Len(groups[g]))

(* C31: addCommands() only appends: after a call, whether it returned or   *)
(* threw, the array before the call is a prefix of the array after it,     *)
(* every earlier command info unchanged; a command info has firstOfGroup   *)
(* set exactly when its class was the first element of the array given to  *)
(* its addCommands() call; a call with an empty array changes nothing.     *)
C31_AppendOnly ==
    /\ lastAdd.called =>
          LET before == lastAdd.before
              n      == Len(commandInfoArray) - Len(before)
          IN  /\ n >= 0
              /\ \A p \in 1..Len(before) : commandInfoArray[p] = before[p]
              /\ \A j \in 1..n :
                    /\ commandInfoArray[Len(before) + j].name = AddedName(j)
                    /\ commandInfoArray[Len(before) + j].firstOfGroup = (j = 1)
              /\ lastAdd.commandClasses = <<>> =>
                    (commandInfoArray = before /\ lastAdd.thrown = NoError)
    /\ \A p \in 1..Len(commandInfoArray) :
          commandInfoArray[p].firstOfGroup = (p \in GroupStarts(1, 1))

C31_Witness ==
    /\ lastAdd.called
    /\ Len(lastAdd.before) = 1
    /\ lastAdd.before[1].firstOfGroup
    /\ Len(lastAdd.commandClasses) = 2
    /\ lastAdd.thrown = NoError
    /\ Len(commandInfoArray) = 3
    /\ ~commandInfoArray[3].firstOfGroup

----------------------------------------------------------------------------
\* the positions in the trace of the calls of next that run() makes itself:
\* those made before an execute hook was called (the later ones are made by
\* the hook, in its body or on a later tick)
DispatcherCalls ==
    {i \in NextCalls : \A j \in 1..(i - 1) : trace[j] \notin ExecuteHooks}

(* C32: within one run(), run() itself calls next at most once, and not at *)
(* all in a run in which it calls the execute hook, on every path          *)
(* (unrecognized command, help, unexpected argument, forwarded parse       *)
(* failure), also when next throws, a CommandError included.               *)
C32_DispatcherCompletesOnce ==
    /\ Cardinality(DispatcherCalls) <= 1
    /\ ExecuteRan => DispatcherCalls = {}

----------------------------------------------------------------------------
\* the first word of argv is a command word that names no registered command
UnknownWord ==
    /\ argv # <<>>
    /\ argv[1][1] # "-"
    /\ Registered(argv[1]) = {}

\* the help flag is set in what minimist makes of the arguments, under the
\* options the option hook has left
HelpFlagSet == HelpOf(minimist(IF UnknownWord \/ argv = <<>> \/ argv[1][1] = "-"
                               THEN argv ELSE Tail(argv), configOptions))

(* C33: the outcomes of run() have a fixed precedence: unrecognized        *)
(* command name, then help, then a failing parse hook, then an unexpected  *)
(* argument, then the execute hook. An unknown first word with --help      *)
(* gives the unrecognized-command error and no help; a set help flag gives *)
(* help and no error, also with leftover arguments, the parse hook not     *)
(* being called at all.                                                    *)
C33_OutcomePrecedence ==
    (pc = "done" /\ hooks.options # "throws") =>
        IF UnknownWord
        THEN /\ completions[1] = UnrecognizedError(toLowerCase(argv[1]))
             /\ NextCalls = {1}
             /\ stdout = <<>>
             /\ hooks = NoHooks
        ELSE IF HelpFlagSet
        THEN /\ Len(stdout) = 1
             /\ hooks.help # ""
             /\ completions = <<NoError>>
             /\ Cardinality(NextCalls) = 1
             /\ ~ParseRan
             /\ ~ExecuteRan
        ELSE IF hooks.parse = "throws"
        THEN /\ stdout = <<>>
             /\ ~ExecuteRan
             /\ completions = IF IsCaught(hooks.raised) THEN <<hooks.raised>> ELSE <<>>
             /\ ~IsCaught(hooks.raised) => thrown = hooks.raised
        ELSE IF args.leftover # <<>>
        THEN /\ stdout = <<>>
             /\ hooks.parse = "returns"
             /\ ~ExecuteRan
             /\ completions # <<>>
             /\ completions[1] = UnexpectedArgError(String(args.leftover[1]))
        ELSE /\ stdout = <<>>
             /\ hooks.parse = "returns"
             /\ ExecuteRan
             /\ DispatcherCalls = {}

C33_Witness ==
    /\ pc = "done"
    /\ UnknownWord
    /\ Len(argv) = 2
    /\ argv[2] = <<"-", "-", "h", "e", "l", "p">>
    /\ commandInfoArray # <<>>
    /\ completions = << UnrecognizedError(argv[1]) >>
    /\ stdout = <<>>

----------------------------------------------------------------------------
\* the help page of the MultiCommand holds the summary entry of this info
Listed(info) ==
    LET page  == getHelp(commandInfoArray, helpWrapWidth)
        entry == getHelpSummaryEntry(info, helpWrapWidth)
    IN  \E at \in 0..(Len(page) - Len(entry)) :
            SubSeq(page, at + 1, at + Len(entry)) = entry

\* run() with this word first loads the command of this info
Dispatchable(info) ==
    /\ Route(commandInfoArray, <<info.name>>) = "named"
    /\ commandInfoArray[FindCommand(commandInfoArray, toLowerCase(info.name))] = info

(* C34: registration of an array is not atomic: when addCommands() throws  *)
(* the duplicate-name error at the k-th class, the k-1 classes before it   *)
(* stay registered, the first of them with firstOfGroup set, and are       *)
(* dispatched to by run() and listed by getHelp; the k-th and the later    *)
(* classes are not registered.                                             *)
C34_NotAtomic ==
    (lastAdd.called /\ lastAdd.thrown # NoError) =>
        LET before == lastAdd.before
            k      == CHOOSE i \in Colliding : \A j \in Colliding : i <= j
        IN  /\ Colliding # {}
            /\ Len(commandInfoArray) = Len(before) + k - 1
            /\ \A j \in 1..(k - 1) :
                  LET info == commandInfoArray[Len(before) + j]
                  IN  /\ info.commandClass = lastAdd.commandClasses[j]
                      /\ info.name = AddedName(j)
                      /\ info.firstOfGroup = (j = 1)
                      /\ Dispatchable(info)
                      /\ Listed(info)
            /\ \A j \in k..Len(lastAdd.commandClasses) :
                  \A p \in Registered(AddedName(j)) :
                      \/ p <= Len(before)
                      \/ \E i \in 1..(k - 1) : p = Len(before) + i
                                               /\ SameUpToCase(AddedName(i), AddedName(j))

C34_Witness ==
    /\ pc = "added"
    /\ lastAdd.thrown # NoError
    /\ Len(lastAdd.before) = 1
    /\ lastAdd.commandClasses = <<"GoCommand", "GoCommand">>
    /\ Len(commandInfoArray) = 2
    /\ commandInfoArray[2].firstOfGroup
    /\ Dispatchable(commandInfoArray[2])
    /\ Listed(commandInfoArray[2])

====
